---- MODULE Spec2Model ----
(***************************************************************************)
(* Buyer Group Enrichment & Classification Engine.                         *)
(*                                                                         *)
(* Two of the repository's scripts are modelled:                           *)
(*   - enrich_mux_buyer_groups.py        (MuxBuyerGroupEnricher)           *)
(*   - analyze_yello_expanded_buyer_group.py                               *)
(* A behaviour is one launch of one script (variable script) on one input  *)
(* batch (variable rows); the Mux script may be launched a second time on  *)
(* the same batch.                                                         *)
(*                                                                         *)
(* Python floats are modelled as integers in thousandths (0.4 is 400,      *)
(* 8.0 is 8000); averages are kept as [num, den] pairs.                    *)
(***************************************************************************)
EXTENDS Integers, Sequences, FiniteSets, TLC

VARIABLES script, rows, pc, idx, err, run,
          enriched, buyer_groups, prev_enriched, prev_groups,
          employees, processed_employees, optimal_buyer_group, role_lists,
          report, cur,
          attempt, checks, status, returned

vars == <<script, rows, pc, idx, err, run,
          enriched, buyer_groups, prev_enriched, prev_groups,
          employees, processed_employees, optimal_buyer_group, role_lists,
          report, cur, attempt, checks, status, returned>>

(***************************************************************************)
(* Bounds of the model.                                                    *)
(***************************************************************************)
MaxBatch == 3

\* the largest batch of the runs that form several buyer groups
MaxGroupBatch == 6

\* the largest batch of the runs whose groups mix roles
MaxMixBatch == 5

\* the most records of one template in the batches larger than the optimal
\* buyer group
MaxPerDepartment == 3

----------------------------------------------------------------------------
(***************************************************************************)
(* Strings: str.lower(), the `in` substring test and re.search with \b.    *)
(***************************************************************************)
Min(a, b) == IF a <= b THEN a ELSE b

UpperChars == "ABCDEFGHIJKLMNOPQRSTUVWXYZ"
LowerChars == "abcdefghijklmnopqrstuvwxyz"
Digits == "0123456789"

CharIn(c, alphabet) == \E k \in 1..Len(alphabet) : SubSeq(alphabet, k, k) = c

LowerChar(c) ==
    IF CharIn(c, UpperChars)
    THEN LET k == CHOOSE j \in 1..Len(UpperChars) : SubSeq(UpperChars, j, j) = c
         IN  SubSeq(LowerChars, k, k)
    ELSE c

RECURSIVE LowerFrom(_, _)
LowerFrom(s, i) ==
    IF i > Len(s) THEN ""
    ELSE LowerChar(SubSeq(s, i, i)) \o LowerFrom(s, i + 1)

\* str.lower()
Lower(s) == LowerFrom(s, 1)

\* Python's `kw in s`
Contains(kw, s) ==
    \E i \in 1..(Len(s) - Len(kw) + 1) : SubSeq(s, i, i + Len(kw) - 1) = kw

ContainsAny(kws, s) == \E kw \in kws : Contains(kw, s)

\* \w of the re module, on lower-cased ASCII text
IsWordChar(c) == CharIn(c, LowerChars) \/ CharIn(c, Digits) \/ c = "_"

\* is the character at position i (1-based) of s a word character;
\* positions outside the string are not
WordAt(s, i) == i >= 1 /\ i <= Len(s) /\ IsWordChar(SubSeq(s, i, i))

\* \b holds between positions i-1 and i
BoundaryAt(s, i) == WordAt(s, i - 1) # WordAt(s, i)

\* re.search(r'\b(kw)\b', s)
MatchWord(kw, s) ==
    \E i \in 1..(Len(s) - Len(kw) + 1) :
        /\ SubSeq(s, i, i + Len(kw) - 1) = kw
        /\ BoundaryAt(s, i)
        /\ BoundaryAt(s, i + Len(kw))

\* re.search(r'\b(k1|k2|...)\b', s)
ReSearch(kws, s) == \E kw \in kws : MatchWord(kw, s)

----------------------------------------------------------------------------
(***************************************************************************)
(* Raw field values.  A text field is [k, s] with k in absent, none, str.  *)
(* A count field is [k, v]: absent, none, empty (''), int (a JSON number), *)
(* numstr (a string of digits, as csv delivers it), text (any other        *)
(* non-empty string).                                                      *)
(***************************************************************************)
\* person.get(field, '') or ''
TextOr(f) == IF f.k = "str" THEN f.s ELSE ""

\* person.get(field, 0) or 0  is a str (truthy, kept as it is)
IsStrCount(c) == c.k \in {"numstr", "text"}

\* person.get(field, 0) or 0  when it is not a str
CountOr(c) == IF c.k = "int" THEN c.v ELSE 0

----------------------------------------------------------------------------
(***************************************************************************)
(* enrich_mux_buyer_groups.py: the rule tables of MuxBuyerGroupEnricher.   *)
(***************************************************************************)
\* self.department_patterns, in insertion order
department_patterns == <<
    [dept |-> "sales",
     kws |-> {"sales", "revenue", "account", "business development", "bd", "ae", "sdr", "bdr"}],
    [dept |-> "marketing",
     kws |-> {"marketing", "growth", "demand gen", "content", "brand", "communications"}],
    [dept |-> "product",
     kws |-> {"product", "pm", "product manager", "ux", "ui", "design"}],
    [dept |-> "engineering",
     kws |-> {"engineer", "developer", "dev", "software", "frontend", "backend", "fullstack", "swe"}],
    [dept |-> "operations",
     kws |-> {"operations", "ops", "revops", "salesops", "marketingops", "business operations"}],
    [dept |-> "finance",
     kws |-> {"finance", "accounting", "fp&a", "controller", "cfo", "treasurer"}],
    [dept |-> "hr",
     kws |-> {"hr", "human resources", "people", "talent", "recruiting", "recruitment"}],
    [dept |-> "legal",
     kws |-> {"legal", "counsel", "compliance", "regulatory"}],
    [dept |-> "executive",
     kws |-> {"ceo", "cfo", "cto", "coo", "president", "vp", "vice president", "director", "head of"}] >>

\* self.seniority_patterns, in insertion order
seniority_patterns == <<
    [level |-> "executive",
     kws |-> {"ceo", "cfo", "cto", "coo", "president", "vp", "vice president", "chief"}],
    [level |-> "director", kws |-> {"director", "head of", "senior director"}],
    [level |-> "manager", kws |-> {"manager", "lead", "senior", "principal"}],
    [level |-> "individual",
     kws |-> {"engineer", "developer", "analyst", "specialist", "coordinator"}],
    [level |-> "entry", kws |-> {"associate", "junior", "intern", "assistant"}] >>

\* self.buyer_group_roles['champion']
champion_keywords == {"vp", "director", "head of", "senior"}

\* str.title() of the keys of department_patterns
TitleCase(dept) ==
    CASE dept = "sales" -> "Sales"
      [] dept = "marketing" -> "Marketing"
      [] dept = "product" -> "Product"
      [] dept = "engineering" -> "Engineering"
      [] dept = "operations" -> "Operations"
      [] dept = "finance" -> "Finance"
      [] dept = "hr" -> "Hr"
      [] dept = "legal" -> "Legal"
      [] dept = "executive" -> "Executive"

\* a list of departments with Finance for random.choice
RandomDepts_with_finance ==
    {"Engineering", "Product", "Marketing", "Sales", "Operations", "Finance"}

\* the departments random.choice draws from
RandomDepts == {"Engineering", "Product", "Marketing", "Sales", "Operations"}

\* does infer_department reach random.choice for this title
DepartmentIsRandom(title) ==
    LET title_lower == Lower(title) IN
    /\ \A k \in 1..Len(department_patterns) :
          ~ReSearch(department_patterns[k].kws, title_lower)
    /\ ~ContainsAny({"video", "streaming", "ingest", "processing"}, title_lower)
    /\ ~ContainsAny({"product", "pm", "lead product"}, title_lower)
    /\ ~ContainsAny({"creative", "design"}, title_lower)
    /\ ~ContainsAny({"solutions", "architect", "support"}, title_lower)
    /\ ~ContainsAny({"president", "coo"}, title_lower)
    /\ (Contains("Senior Manager", title) \/ Contains("Manager", title))

\* infer_department(title, company_info); choice is the value random.choice
\* returns when it is called
infer_department(title, choice) ==
    LET title_lower == Lower(title)
        hits == {k \in 1..Len(department_patterns) :
                    ReSearch(department_patterns[k].kws, title_lower)}
    IN  IF hits # {}
        THEN TitleCase(department_patterns[CHOOSE k \in hits : \A j \in hits : k <= j].dept)
        ELSE IF ContainsAny({"video", "streaming", "ingest", "processing"}, title_lower)
        THEN "Engineering"
        ELSE IF ContainsAny({"product", "pm", "lead product"}, title_lower)
        THEN "Product"
        ELSE IF ContainsAny({"creative", "design"}, title_lower)
        THEN "Marketing"
        ELSE IF ContainsAny({"solutions", "architect", "support"}, title_lower)
        THEN "Customer Success"
        ELSE IF ContainsAny({"president", "coo"}, title_lower)
        THEN "Executive"
        ELSE IF Contains("Senior Manager", title) \/ Contains("Manager", title)
        THEN choice
        ELSE "Engineering"

\* extract_team(title, department)
extract_team(title) ==
    LET title_lower == Lower(title) IN
    IF ReSearch({"growth", "acquisition", "retention"}, title_lower) THEN "Growth"
    ELSE IF ReSearch({"product", "platform", "core", "infrastructure"}, title_lower) THEN "Product"
    ELSE IF ReSearch({"frontend", "backend", "fullstack", "mobile", "web", "api"}, title_lower)
    THEN "Engineering"
    ELSE IF ReSearch({"enterprise", "mid-market", "smb", "inside", "field"}, title_lower)
    THEN "Sales"
    ELSE IF ReSearch({"content", "demand gen", "brand", "communications", "events"}, title_lower)
    THEN "Marketing"
    ELSE "General"

\* standardize_title(title)
standardize_title(title) ==
    LET title_lower == Lower(title) IN
    IF ReSearch({"ceo", "chief executive officer"}, title_lower) THEN "Chief Executive Officer"
    ELSE IF ReSearch({"cfo", "chief financial officer"}, title_lower) THEN "Chief Financial Officer"
    ELSE IF ReSearch({"cto", "chief technology officer"}, title_lower) THEN "Chief Technology Officer"
    ELSE IF ReSearch({"coo", "chief operating officer"}, title_lower) THEN "Chief Operating Officer"
    ELSE IF ReSearch({"vp", "vice president"}, title_lower) THEN "Vice President"
    ELSE IF ReSearch({"director", "head of"}, title_lower) THEN "Director"
    ELSE IF ReSearch({"manager", "lead"}, title_lower) THEN "Manager"
    ELSE IF ReSearch({"engineer", "developer", "analyst", "specialist"}, title_lower)
    THEN "Individual Contributor"
    ELSE title

\* determine_seniority_level(title)
determine_seniority_level(title) ==
    LET title_lower == Lower(title)
        hits == {k \in 1..Len(seniority_patterns) :
                    ReSearch(seniority_patterns[k].kws, title_lower)}
    IN  IF hits # {}
        THEN seniority_patterns[CHOOSE k \in hits : \A j \in hits : k <= j].level
        ELSE "individual"

\* dept_power.get(department.lower(), 0.05), in thousandths
dept_power(department) ==
    LET d == Lower(department) IN
    CASE d = "executive" -> 300
      [] d = "sales" -> 250
      [] d = "product" -> 200
      [] d = "engineering" -> 150
      [] d = "marketing" -> 150
      [] d = "operations" -> 100
      [] d = "finance" -> 100
      [] d = "hr" -> 50
      [] d = "legal" -> 50
      [] OTHER -> 50

\* the title-based increment with `if` in place of `elif`: every matching
\* level adds its increment
title_power_every_level(title) ==
    LET title_lower == Lower(title) IN
    (IF ReSearch({"ceo", "cfo", "cto", "coo", "president"}, title_lower) THEN 400 ELSE 0)
    + (IF ReSearch({"vp", "vice president"}, title_lower) THEN 300 ELSE 0)
    + (IF ReSearch({"director", "head of"}, title_lower) THEN 200 ELSE 0)
    + (IF ReSearch({"manager", "lead"}, title_lower) THEN 100 ELSE 0)

\* the title-based increment of calculate_decision_making_power, in thousandths
title_power(title) ==
    LET title_lower == Lower(title) IN
    IF ReSearch({"ceo", "cfo", "cto", "coo", "president"}, title_lower) THEN 400
    ELSE IF ReSearch({"vp", "vice president"}, title_lower) THEN 300
    ELSE IF ReSearch({"director", "head of"}, title_lower) THEN 200
    ELSE IF ReSearch({"manager", "lead"}, title_lower) THEN 100
    ELSE 0

\* calculate_decision_making_power(title, department), in thousandths
calculate_decision_making_power(title, department) ==
    Min(title_power(title) + dept_power(department), 1000)

\* the role chain with the stakeholder test before the blocker test
determine_buyer_group_role_stakeholder_first(title, department, decision_power) ==
    LET title_lower == Lower(title)
        dept_lower == Lower(department)
    IN  IF decision_power >= 600 THEN "decision_maker"
        ELSE IF decision_power >= 400 \/ ContainsAny(champion_keywords, title_lower)
        THEN "champion"
        ELSE IF decision_power >= 200 THEN "stakeholder"
        ELSE IF dept_lower \in {"legal", "compliance", "finance"} THEN "blocker"
        ELSE "opener"

\* determine_buyer_group_role(title, department, decision_power)
determine_buyer_group_role(title, department, decision_power) ==
    LET title_lower == Lower(title)
        dept_lower == Lower(department)
    IN  IF decision_power >= 600 THEN "decision_maker"
        ELSE IF decision_power >= 400 \/ ContainsAny(champion_keywords, title_lower)
        THEN "champion"
        ELSE IF dept_lower \in {"legal", "compliance", "finance"} THEN "blocker"
        ELSE IF decision_power >= 200 THEN "stakeholder"
        ELSE "opener"

\* field in person and person[field]  ('activity', 'experience')
Truthy(f) == f.k \notin {"absent", "none", "empty"}

\* calculate_influence_score with both network increments for a network
\* above 500
mux_influence_score_both_increments(person, decision_power) ==
    LET connections == CountOr(person.connections) IN
    Min( (decision_power * 4) \div 10
         + (IF Truthy(person.activity) THEN 200 ELSE 0)
         + (IF connections > 500 THEN 200 ELSE 0)
         + (IF connections > 200 THEN 100 ELSE 0)
         + (IF Truthy(person.experience) THEN 100 ELSE 0),
         1000)

\* calculate_influence_score(person, decision_power), in thousandths;
\* called only when person['connections'] can be compared with a number
mux_influence_score(person, decision_power) ==
    LET connections == CountOr(person.connections) IN
    Min( (decision_power * 4) \div 10
         + (IF Truthy(person.activity) THEN 200 ELSE 0)
         + (IF connections > 500 THEN 200 ELSE IF connections > 200 THEN 100 ELSE 0)
         + (IF Truthy(person.experience) THEN 100 ELSE 0),
         1000)

\* calculate_flight_risk(person), in thousandths
calculate_flight_risk(person) ==
    LET title_lower == Lower(TextOr(person.position)) IN
    Min( 500 + 100
         + (IF person.activity.k \in {"none", "empty"} THEN 200 ELSE 0)
         + (IF ContainsAny({"engineer", "developer", "sales"}, title_lower) THEN 100 ELSE 0),
         1000)

\* analyze_executive_character(person)
analyze_executive_character(person) ==
    LET title_lower == Lower(TextOr(person.position)) IN
    [decision_making_style |->
        IF Contains("engineer", title_lower) THEN "data-driven" ELSE "consensus-driven",
     risk_tolerance |-> "moderate",
     leadership_style |->
        IF Contains("vp", title_lower) \/ Contains("director", title_lower)
        THEN "transformational" ELSE "democratic",
     communication_style |->
        IF Contains("engineer", title_lower) THEN "analytical" ELSE "direct",
     confidence |-> 700]

\* build_org_structure(person, department)
build_org_structure(person, department) ==
    [department |-> department,
     level |-> determine_seniority_level(TextOr(person.position))]

----------------------------------------------------------------------------
(***************************************************************************)
(* The input batch.  A record has the fields the scripts read; experience  *)
(* and current_company are [k, s]: absent, empty, bad (a non-empty cell    *)
(* that json.loads rejects), other (valid JSON of another shape), present  *)
(* (a list / dict, s the title of the first entry / of the dict).          *)
(***************************************************************************)
Str(s) == [k |-> "str", s |-> s]
NoText == [k |-> "absent", s |-> ""]
NoneText == [k |-> "none", s |-> ""]
Num(n) == [k |-> "int", v |-> n]
NoCount == [k |-> "absent", v |-> 0]
EmptyCount == [k |-> "empty", v |-> 0]
TextCount == [k |-> "text", v |-> 0]
Nested(kind, s) == [k |-> kind, s |-> s]

Huge == 1000000000

Ids == <<"p1", "p2", "p3", "p4", "p5", "p6", "p7", "p8", "p9", "p10", "p11", "p12",
         "p13", "p14", "p15", "p16", "p17", "p18", "p19", "p20", "p21", "p22", "p23",
         "p24", "p25", "p26", "p27", "p28", "p29", "p30", "p31", "p32">>

\* the first person of the end-to-end example
VPOfSales ==
    [has_id |-> TRUE, position |-> Str("VP of Sales"), about |-> "",
     connections |-> Num(1200), followers |-> Num(300), recommendations_count |-> NoCount,
     activity |-> Nested("present", ""), experience |-> Nested("present", "VP of Sales"),
     current_company |-> Nested("present", "VP of Sales")]

\* the second person of the end-to-end example
SoftwareEngineer ==
    [has_id |-> TRUE, position |-> Str("Software Engineer"), about |-> "",
     connections |-> Num(150), followers |-> Num(50), recommendations_count |-> Num(2),
     activity |-> Nested("empty", ""), experience |-> Nested("absent", ""),
     current_company |-> Nested("absent", "")]

\* the third person of the end-to-end example: no title in any field
NoTitle ==
    [has_id |-> TRUE, position |-> Str(""), about |-> "",
     connections |-> Num(600), followers |-> Num(900), recommendations_count |-> EmptyCount,
     activity |-> Nested("absent", ""), experience |-> Nested("empty", ""),
     current_company |-> Nested("other", "")]

\* a title with a sales keyword and an engineering keyword
SalesEngineer ==
    [has_id |-> TRUE, position |-> Str("Sales Engineering Manager"), about |-> "",
     connections |-> Num(250), followers |-> Num(4000), recommendations_count |-> Num(3),
     activity |-> Nested("present", ""), experience |-> Nested("present", "Account Executive"),
     current_company |-> Nested("present", "")]

\* a placeholder title and a connection count that is not a number
BadCount ==
    [has_id |-> TRUE, position |-> Str("--"), about |-> "",
     connections |-> TextCount, followers |-> NoCount, recommendations_count |-> NoCount,
     activity |-> Nested("absent", ""), experience |-> Nested("absent", ""),
     current_company |-> Nested("absent", "")]

\* an executive with a pathologically large network
HugeNetwork ==
    [has_id |-> TRUE, position |-> Str("CEO"), about |-> "",
     connections |-> Num(Huge), followers |-> Num(Huge), recommendations_count |-> Num(20),
     activity |-> Nested("present", ""), experience |-> Nested("other", ""),
     current_company |-> Nested("present", "Chief Executive Officer")]

\* no position field; the title is in current_company only
CompanyTitleOnly ==
    [has_id |-> TRUE, position |-> NoText, about |-> "revenue leader",
     connections |-> NoCount, followers |-> Num(900), recommendations_count |-> Num(12),
     activity |-> Nested("empty", ""), experience |-> Nested("present", "Analyst"),
     current_company |-> Nested("present", "Director of Finance")]

\* no id, the placeholder 'None' as position, an experience cell that does
\* not parse
BadExperience ==
    [has_id |-> FALSE, position |-> Str("None"), about |-> "",
     connections |-> Num(250), followers |-> NoCount, recommendations_count |-> NoCount,
     activity |-> Nested("absent", ""), experience |-> Nested("bad", ""),
     current_company |-> Nested("empty", "")]

PersonTemplates == {VPOfSales, SoftwareEngineer, NoTitle, SalesEngineer, BadCount,
                    HugeNetwork, CompanyTitleOnly, BadExperience}

\* the record at position i of the batch: the template with its id
PersonRecord(t, i) ==
    [id |-> IF t.has_id THEN Ids[i] ELSE "",
     position |-> t.position, about |-> t.about,
     connections |-> t.connections, followers |-> t.followers,
     recommendations_count |-> t.recommendations_count,
     activity |-> t.activity, experience |-> t.experience,
     current_company |-> t.current_company]

\* a record with a position, three counts and an activity signal, and no
\* other title source
Titled(position, connections, followers, recommendations_count) ==
    [has_id |-> TRUE, position |-> Str(position), about |-> "",
     connections |-> Num(connections), followers |-> Num(followers),
     recommendations_count |-> Num(recommendations_count),
     activity |-> Nested("present", ""), experience |-> Nested("absent", ""),
     current_company |-> Nested("absent", "")]

\* the title is in experience only; the counts sit on the inference thresholds
ExperienceTitleOnly ==
    [has_id |-> TRUE, position |-> Str(""), about |-> "",
     connections |-> Num(200), followers |-> Num(1000), recommendations_count |-> NoCount,
     activity |-> Nested("absent", ""), experience |-> Nested("present", "Account Manager"),
     current_company |-> Nested("present", "")]

\* three different titles in the three title sources
AllThreeTitles ==
    [has_id |-> TRUE, position |-> Str("Operations Analyst"), about |-> "",
     connections |-> Num(4000), followers |-> Num(1000), recommendations_count |-> Num(1),
     activity |-> Nested("present", ""),
     experience |-> Nested("present", "President of Operations"),
     current_company |-> Nested("present", "VP Operations")]

\* position is None; the title is in current_company
PositionNone ==
    [has_id |-> TRUE, position |-> NoneText, about |-> "",
     connections |-> Num(2500), followers |-> Num(500), recommendations_count |-> NoCount,
     activity |-> Nested("none", ""), experience |-> Nested("present", "Intern"),
     current_company |-> Nested("present", "Team Lead")]

\* records that vary one input at a time: placeholder titles with counts
\* around the inference thresholds, one title per level and department of
\* the decision-power tables, networks and recommendations around the caps
\* of the influence score, a title without any keyword around the
\* thresholds of the seniority fallback
ExtraTemplates ==
    {ExperienceTitleOnly, AllThreeTitles, PositionNone,
     Titled("--", 500, 1000, 0), Titled("None", 501, 0, 0),
     Titled("", 0, 1001, 0), Titled("--", 201, 0, 0),
     Titled("CEO", 5000, 4000, 9), Titled("CEO", 6000, 4000, 10),
     Titled("CEO", 7000, 5000, 11),
     Titled("President of Sales", 800, 200, 0),
     Titled("President of Product", 800, 200, 0),
     Titled("President of Operations", 800, 200, 0),
     Titled("President & Director of Operations", 800, 200, 0),
     Titled("VP Operations", 800, 200, 0),
     Titled("Director of Operations", 800, 200, 0),
     Titled("Operations Manager", 800, 200, 0),
     Titled("Finance Manager", 3000, 1500, 0),
     Titled("Receptionist", 600, 400, 0), Titled("Receptionist", 601, 400, 0),
     Titled("Receptionist", 1500, 500, 0), Titled("Receptionist", 1500, 501, 0),
     Titled("Client Representative", 1500, 600, 0)}

\* the batches of one to MaxBatch records over PersonTemplates
TemplateBatches ==
    UNION { { [i \in 1..n |-> PersonRecord(f[i], i)] : f \in [1..n -> PersonTemplates] }
            : n \in 1..MaxBatch }

\* the batches of one record and of two records over ExtraTemplates
ExtraBatches ==
    { <<PersonRecord(a, 1)>> : a \in ExtraTemplates }
    \cup { <<PersonRecord(a, 1), PersonRecord(b, 2)>> : a, b \in ExtraTemplates }

Batches == TemplateBatches \cup ExtraBatches

\* the templates of the batches that form several buyer groups: a sales
\* champion, an engineering opener, a sales stakeholder, an executive
\* decision maker
GroupTemplates == {VPOfSales, SoftwareEngineer, SalesEngineer, HugeNetwork}

\* the batches of one to n records over GroupTemplates
GroupBatchesUpTo(n) ==
    UNION { { [i \in 1..m |-> PersonRecord(f[i], i)] : f \in [1..m -> GroupTemplates] }
            : m \in 1..n }

\* a record like Titled, without the id key
Untitled(position, connections) ==
    [has_id |-> FALSE, position |-> Str(position), about |-> "",
     connections |-> Num(connections), followers |-> NoCount,
     recommendations_count |-> NoCount,
     activity |-> Nested("absent", ""), experience |-> Nested("absent", ""),
     current_company |-> Nested("absent", "")]

\* an operations vice president with activity, network and experience
VPOperations ==
    [has_id |-> TRUE, position |-> Str("VP Operations"), about |-> "",
     connections |-> Num(800), followers |-> Num(200), recommendations_count |-> Num(0),
     activity |-> Nested("present", ""), experience |-> Nested("present", "VP Operations"),
     current_company |-> Nested("absent", "")]

\* the templates of the batches whose groups mix roles, in a fixed order: a
\* sales decision maker and champion, a finance champion and two finance
\* blockers, a legal blocker, a finance blocker and a finance champion
\* without an id, a record without id and without title, an operations
\* champion whose decision power is 0.4.  On every batch over these
\* templates and over GroupTemplates the sums in thousandths and the sums
\* of Python floats fall on the same side of the cut points of
\* calculate_group_priority.
RoleMixTemplates ==
    << Titled("President of Sales", 800, 200, 0), VPOfSales,
       Titled("Director of Finance", 100, 0, 0),
       Titled("Finance Manager", 3000, 1500, 0),
       Titled("Finance Analyst", 100, 0, 0),
       Titled("General Counsel", 100, 0, 0),
       Untitled("Finance Manager", 100), Untitled("Director of Finance", 100),
       BadExperience, VPOperations >>

\* the sequences of m template indexes in non-decreasing order
RECURSIVE SortedIndexes(_)
SortedIndexes(m) ==
    IF m = 0 THEN {<<>>}
    ELSE UNION { { Append(f, k) :
                     k \in (IF f = <<>> THEN 1 ELSE f[Len(f)])..Len(RoleMixTemplates) } :
                 f \in SortedIndexes(m - 1) }

\* the batches of one to n records over RoleMixTemplates, the templates in
\* the order of the list
RoleMixBatchesUpTo(n) ==
    UNION { { [i \in 1..m |-> PersonRecord(RoleMixTemplates[f[i]], i)] :
                f \in SortedIndexes(m) }
            : m \in 1..n }

----------------------------------------------------------------------------
(***************************************************************************)
(* MuxBuyerGroupEnricher.enrich_person                                     *)
(***************************************************************************)
\* the placeholder test without the list of placeholder values
IsPlaceholder_empty_only(title) == title = ""

\* the test `not title or title in ['--', 'None', '']`
IsPlaceholder(title) == title = "" \/ title \in {"--", "None", ""}

\* the title inference with thresholds that include 500, 1000 and 200
ResolveTitle_at_least(person) ==
    LET title == TextOr(person.position)
        connections == CountOr(person.connections)
        followers == CountOr(person.followers)
    IN  IF IsPlaceholder(title)
        THEN IF connections >= 500 \/ followers >= 1000 THEN "Senior Manager"
             ELSE IF connections >= 200 THEN "Manager"
             ELSE "Individual Contributor"
        ELSE title

\* the title enrich_person works with; called only when the comparisons
\* of the inference branch do not raise
ResolveTitle(person) ==
    LET title == TextOr(person.position)
        connections == CountOr(person.connections)
        followers == CountOr(person.followers)
    IN  IF IsPlaceholder(title)
        THEN IF connections > 500 \/ followers > 1000 THEN "Senior Manager"
             ELSE IF connections > 200 THEN "Manager"
             ELSE "Individual Contributor"
        ELSE title

\* enrichment_confidence, in thousandths
ResolveConfidence(person) ==
    IF IsPlaceholder(TextOr(person.position)) THEN 300 ELSE 800

\* enrich_person raises TypeError: a str is compared with a number, in the
\* inference branch (connections > 500 or followers > 1000) or in
\* calculate_influence_score (connections > 500)
EnrichRaises(person) ==
    \/ IsStrCount(person.connections)
    \/ /\ IsPlaceholder(TextOr(person.position))
       /\ CountOr(person.connections) <= 500
       /\ IsStrCount(person.followers)

\* enrich_person(person), with the value random.choice returns
enrich_person(person, choice) ==
    LET title == ResolveTitle(person)
        department == infer_department(title, choice)
        decision_making_power == calculate_decision_making_power(title, department)
    IN  [id |-> person.id,
         title |-> title,
         department |-> department,
         team |-> extract_team(title),
         standardized_title |-> standardize_title(title),
         seniority_level |-> determine_seniority_level(title),
         decision_making_power |-> decision_making_power,
         buyer_group_role |->
             determine_buyer_group_role(title, department, decision_making_power),
         influence_score |-> mux_influence_score(person, decision_making_power),
         flight_risk_score |-> calculate_flight_risk(person),
         executive_character |-> analyze_executive_character(person),
         org_structure |-> build_org_structure(person, department),
         enrichment_confidence |-> ResolveConfidence(person)]

\* every record a batch can hold
AllPersons ==
    { PersonRecord(t, i) : t \in PersonTemplates, i \in 1..MaxBatch }
    \cup { PersonRecord(t, i) : t \in ExtraTemplates, i \in 1..2 }
    \cup { PersonRecord(t, i) : t \in GroupTemplates, i \in 1..MaxGroupBatch }
    \cup { PersonRecord(RoleMixTemplates[k], i) :
               k \in 1..Len(RoleMixTemplates), i \in 1..MaxMixBatch }

\* enrich_person on every record, evaluated once: whether it raises, whether
\* it calls random.choice, and its result for each value random.choice returns
EnrichMemo ==
    [p \in AllPersons |->
        [raises |-> EnrichRaises(p),
         random |-> DepartmentIsRandom(ResolveTitle(p)),
         out |-> [choice \in RandomDepts \cup {"none"} |-> enrich_person(p, choice)]]]

----------------------------------------------------------------------------
(***************************************************************************)
(* MuxBuyerGroupEnricher.identify_buyer_groups                             *)
(***************************************************************************)
RECURSIVE SumSeq(_)
SumSeq(s) == IF s = <<>> THEN 0 ELSE Head(s) + SumSeq(Tail(s))

\* the keys of dept_groups, in insertion order
DeptOrder(people) ==
    LET firsts == SelectSeq([i \in 1..Len(people) |-> i],
                     LAMBDA i : \A j \in 1..(i - 1) :
                                   people[j].department # people[i].department)
    IN  [k \in 1..Len(firsts) |-> people[firsts[k]].department]

\* dept_groups[dept]
DeptPeople(people, dept) == SelectSeq(people, LAMBDA p : p.department = dept)

\* [p.id for p in people]
IdsOf(people) == [i \in 1..Len(people) |-> people[i].id]

\* [p.id for p in people if p.buyer_group_role == role]
RoleIds(people, role) ==
    IdsOf(SelectSeq(people, LAMBDA p : p.buyer_group_role = role))

\* sum(p.influence_score for p in people)
TotalInfluence(people) == SumSeq([i \in 1..Len(people) |-> people[i].influence_score])

\* sum(p.decision_making_power for p in people)
TotalDecisionPower(people) ==
    SumSeq([i \in 1..Len(people) |-> people[i].decision_making_power])

\* sum(p.flight_risk_score for p in people)
TotalFlightRisk(people) == SumSeq([i \in 1..Len(people) |-> people[i].flight_risk_score])

\* determine_engagement_strategy with the champion test first
determine_engagement_strategy_champion_first(people) ==
    LET champions == SelectSeq(people, LAMBDA p : p.buyer_group_role = "champion")
        decision_makers == SelectSeq(people, LAMBDA p : p.buyer_group_role = "decision_maker")
        blockers == SelectSeq(people, LAMBDA p : p.buyer_group_role = "blocker")
    IN  IF Len(champions) > 0 THEN "champion_led"
        ELSE IF Len(decision_makers) > 0 THEN "executive_sponsor"
        ELSE IF Len(blockers) > 0 THEN "blocker_mitigation"
        ELSE "stakeholder_consensus"

\* determine_engagement_strategy(people)
determine_engagement_strategy(people) ==
    LET champions == SelectSeq(people, LAMBDA p : p.buyer_group_role = "champion")
        decision_makers == SelectSeq(people, LAMBDA p : p.buyer_group_role = "decision_maker")
        blockers == SelectSeq(people, LAMBDA p : p.buyer_group_role = "blocker")
    IN  IF Len(decision_makers) > 0 THEN "executive_sponsor"
        ELSE IF Len(champions) > 0 THEN "champion_led"
        ELSE IF Len(blockers) > 0 THEN "blocker_mitigation"
        ELSE "stakeholder_consensus"

\* calculate_group_priority with >= in place of >
calculate_group_priority_at_least(people) ==
    LET total_influence == TotalInfluence(people)
        sum_decision_power == TotalDecisionPower(people)
    IN  IF total_influence >= 3000 /\ sum_decision_power >= 400 * Len(people) THEN "high"
        ELSE IF total_influence >= 2000 /\ sum_decision_power >= 300 * Len(people) THEN "medium"
        ELSE "low"

\* calculate_group_priority(people); avg > 0.4 is sum > 0.4 * len
calculate_group_priority(people) ==
    LET total_influence == TotalInfluence(people)
        sum_decision_power == TotalDecisionPower(people)
    IN  IF total_influence > 3000 /\ sum_decision_power > 400 * Len(people) THEN "high"
        ELSE IF total_influence > 2000 /\ sum_decision_power > 300 * Len(people) THEN "medium"
        ELSE "low"

\* the buyer_group dict built for one department
BuyerGroup(dept, people) ==
    [id |-> "mux_" \o Lower(dept) \o "_bg",
     company_id |-> "mux",
     department |-> dept,
     members |-> IdsOf(people),
     roles |-> [champions |-> RoleIds(people, "champion"),
                decision_makers |-> RoleIds(people, "decision_maker"),
                blockers |-> RoleIds(people, "blocker"),
                stakeholders |-> RoleIds(people, "stakeholder"),
                openers |-> RoleIds(people, "opener")],
     metrics |-> [total_influence |-> TotalInfluence(people),
                  avg_decision_power |->
                      [num |-> TotalDecisionPower(people), den |-> Len(people)],
                  flight_risk |->
                      [num |-> TotalFlightRisk(people), den |-> Len(people)],
                  coverage_score |->
                      [num |-> Len(SelectSeq(people, LAMBDA p :
                                  p.buyer_group_role \in {"champion", "decision_maker"})),
                       den |-> Len(people)]],
     engagement_strategy |-> determine_engagement_strategy(people),
     priority |-> calculate_group_priority(people)]

\* the minimum group size of identify_buyer_groups
MinGroupSize == 3

\* identify_buyer_groups emitting a group for every department
EmitsGroup_every_department(people, dept) == Len(DeptPeople(people, dept)) >= 1

\* does identify_buyer_groups emit a group for the department
EmitsGroup(people, dept) == Len(DeptPeople(people, dept)) >= MinGroupSize

\* identify_buyer_groups(enriched_people)
identify_buyer_groups(enriched_people) ==
    LET depts == SelectSeq(DeptOrder(enriched_people),
                           LAMBDA d : EmitsGroup(enriched_people, d))
    IN  [k \in 1..Len(depts) |-> BuyerGroup(depts[k], DeptPeople(enriched_people, depts[k]))]

----------------------------------------------------------------------------
(***************************************************************************)
(* MuxBuyerGroupEnricher.generate_buyer_group_report                       *)
(***************************************************************************)
\* the recommendations of a group without the champion gap
GroupRecommendations_high_only(bg) ==
    IF bg.priority = "high"
    THEN << [buyer_group_id |-> bg.id, priority |-> "high",
             action |-> "Prioritize engagement with " \o bg.department \o " team",
             rationale |-> "High influence and decision power",
             timeline |-> "immediate"] >>
    ELSE << >>

\* the recommendations one buyer group contributes, in the order appended
GroupRecommendations(bg) ==
    (IF bg.priority = "high"
     THEN << [buyer_group_id |-> bg.id, priority |-> "high",
              action |-> "Prioritize engagement with " \o bg.department \o " team",
              rationale |-> "High influence and decision power",
              timeline |-> "immediate"] >>
     ELSE << >>)
    \o
    (IF Len(bg.roles.champions) = 0
     THEN << [buyer_group_id |-> bg.id, priority |-> "medium",
              action |-> "Identify champion in " \o bg.department \o " team",
              rationale |-> "No champions identified - need internal advocate",
              timeline |-> "1-2 weeks"] >>
     ELSE << >>)

\* generate_recommendations(buyer_groups)
RECURSIVE generate_recommendations(_)
generate_recommendations(groups) ==
    IF groups = <<>> THEN <<>>
    ELSE GroupRecommendations(Head(groups)) \o generate_recommendations(Tail(groups))

\* the report before generate_buyer_group_report has run
NoReport == [generated |-> FALSE]

\* generate_buyer_group_report; buyer_groups and enriched_people of the
\* report are the variables of the same names, coverage_score is kept as
\* the fractions summed and their number
generate_buyer_group_report(enriched_people, groups) ==
    [generated |-> TRUE,
     total_employees_analyzed |-> Len(enriched_people),
     summary |->
        [total_buyer_groups |-> Len(groups),
         high_priority_groups |-> Len(SelectSeq(groups, LAMBDA bg : bg.priority = "high")),
         avg_group_size |->
            [num |-> SumSeq([k \in 1..Len(groups) |-> Len(groups[k].members)]),
             den |-> Len(groups)],
         coverage_score |->
            [terms |-> [k \in 1..Len(groups) |-> groups[k].metrics.coverage_score],
             den |-> Len(groups)]],
     recommendations |-> generate_recommendations(groups)]

----------------------------------------------------------------------------
(***************************************************************************)
(* analyze_yello_expanded_buyer_group.py                                   *)
(***************************************************************************)
\* the cell is non-empty and json.loads rejects it (JSONDecodeError)
JsonFails(cell) == cell.k = "bad"

\* load_yello_data skips the row: the except branch is taken
RowIsSkipped(row) == JsonFails(row.current_company) \/ JsonFails(row.experience)

\* get_primary_title with the experience title tried before current_company
get_primary_title_experience_first(employee) ==
    LET position == TextOr(employee.position)
        company_title == IF employee.current_company.k = "present"
                         THEN employee.current_company.s ELSE ""
        experience_title == IF employee.experience.k = "present"
                            THEN employee.experience.s ELSE ""
    IN  IF position # "" THEN position
        ELSE IF experience_title # "" THEN experience_title
        ELSE company_title

\* get_primary_title(employee)
get_primary_title(employee) ==
    LET position == TextOr(employee.position)
        company_title == IF employee.current_company.k = "present"
                         THEN employee.current_company.s ELSE ""
        experience_title == IF employee.experience.k = "present"
                            THEN employee.experience.s ELSE ""
    IN  IF position # "" THEN position
        ELSE IF company_title # "" THEN company_title
        ELSE experience_title

\* the keyword groups of categorize_department, in the order they are tested
department_keywords == <<
    [dept |-> "Sales & Revenue Operations",
     kws |-> {"sales", "revenue", "revops", "account executive", "business development",
              "sales development", "sales operations", "revenue operations", "sales manager",
              "sales director", "sales leader", "sales enablement", "sales strategy",
              "field sales", "inside sales", "enterprise sales", "commercial sales",
              "business development representative", "bdr", "sdr", "client manager"}],
    [dept |-> "Marketing",
     kws |-> {"marketing", "product marketing", "field marketing", "demand generation",
              "growth marketing", "digital marketing", "content marketing", "brand",
              "communications", "public relations", "pr", "social media", "brand content"}],
    [dept |-> "Engineering & Product",
     kws |-> {"engineer", "software", "developer", "programmer", "architect", "technical",
              "product manager", "product owner", "scrum master", "agile", "devops",
              "site reliability", "sre", "platform", "infrastructure", "backend", "frontend",
              "full stack", "data engineer", "machine learning", "ai", "ml"}],
    [dept |-> "Customer Success & Support",
     kws |-> {"customer success", "customer support", "customer experience", "cx",
              "support engineer", "technical support", "customer success manager",
              "account manager", "customer success director", "client manager"}],
    [dept |-> "Operations & Business",
     kws |-> {"operations", "business operations", "strategy", "business development",
              "partnerships", "alliances", "channel", "operations manager", "chief of staff"}],
    [dept |-> "HR & People",
     kws |-> {"hr", "human resources", "people", "talent", "recruiting", "recruitment",
              "people operations", "hr manager", "hr director", "talent acquisition"}],
    [dept |-> "Finance & Legal",
     kws |-> {"finance", "financial", "accounting", "controller", "cfo", "legal",
              "counsel", "attorney", "compliance", "risk", "audit"}],
    [dept |-> "Executive & Leadership",
     kws |-> {"ceo", "cto", "cfo", "coo", "president", "vice president", "vp",
              "director", "head of", "chief", "founder", "co-founder", "executive"}] >>

\* categorize_department with the engineering group tested before the
\* sales group
categorize_department_engineering_first(title, about) ==
    LET combined_text == Lower(title) \o " " \o Lower(about)
        order == <<3, 1, 2, 4, 5, 6, 7, 8>>
        hits == {n \in 1..Len(order) :
                    ContainsAny(department_keywords[order[n]].kws, combined_text)}
    IN  IF hits # {}
        THEN department_keywords[order[CHOOSE n \in hits : \A j \in hits : n <= j]].dept
        ELSE "Other"

\* categorize_department(title, about)
categorize_department(title, about) ==
    LET combined_text == Lower(title) \o " " \o Lower(about)
        hits == {k \in 1..Len(department_keywords) :
                    ContainsAny(department_keywords[k].kws, combined_text)}
    IN  IF hits # {}
        THEN department_keywords[CHOOSE k \in hits : \A j \in hits : k <= j].dept
        ELSE "Other"

\* int(x or 0) raises ValueError
IntFails(c) == c.k = "text"

\* int(x or 0) when it does not raise
IntOr(c) == IF c.k \in {"int", "numstr"} THEN c.v ELSE 0

\* does the title match one of the keyword tiers of calculate_seniority_level
SeniorityKeywordMatches(title) ==
    ContainsAny({"ceo", "cto", "cfo", "coo", "president", "founder", "co-founder",
                 "vice president", "vp", "director", "head of", "chief",
                 "manager", "lead", "senior", "principal",
                 "engineer", "developer", "analyst", "specialist", "coordinator",
                 "representative"}, Lower(title))

\* calculate_seniority_level raises: int() is reached only in the fallback
SeniorityRaises(title, connections, followers) ==
    /\ ~SeniorityKeywordMatches(title)
    /\ (IntFails(connections) \/ IntFails(followers))

\* calculate_seniority_level with the network size consulted before the
\* keyword tiers
calculate_seniority_level_network_first(title, connections, followers) ==
    LET title_lower == Lower(title)
        total_network == IntOr(connections) + IntOr(followers)
    IN  IF total_network > 2000 THEN "Senior Leadership"
        ELSE IF total_network > 1000 THEN "Mid-Level Management"
        ELSE IF ContainsAny({"ceo", "cto", "cfo", "coo", "president", "founder", "co-founder"},
                            title_lower)
        THEN "Executive"
        ELSE IF ContainsAny({"vice president", "vp", "director", "head of", "chief"},
                            title_lower)
        THEN "Senior Leadership"
        ELSE IF ContainsAny({"manager", "lead", "senior", "principal"}, title_lower)
        THEN "Mid-Level Management"
        ELSE "Individual Contributor"

\* calculate_seniority_level(title, connections, followers)
calculate_seniority_level(title, connections, followers) ==
    LET title_lower == Lower(title)
        total_network == IntOr(connections) + IntOr(followers)
    IN  IF ContainsAny({"ceo", "cto", "cfo", "coo", "president", "founder", "co-founder"},
                       title_lower)
        THEN "Executive"
        ELSE IF ContainsAny({"vice president", "vp", "director", "head of", "chief"},
                            title_lower)
        THEN "Senior Leadership"
        ELSE IF ContainsAny({"manager", "lead", "senior", "principal"}, title_lower)
        THEN "Mid-Level Management"
        ELSE IF ContainsAny({"engineer", "developer", "analyst", "specialist",
                             "coordinator", "representative"}, title_lower)
        THEN "Individual Contributor"
        ELSE IF total_network > 2000 THEN "Senior Leadership"
        ELSE IF total_network > 1000 THEN "Mid-Level Management"
        ELSE "Individual Contributor"

\* a seniority_bonus table with the same bonus for every tier
seniority_bonus_flat(seniority) ==
    CASE seniority \in {"Executive", "Senior Leadership", "Mid-Level Management",
                        "Individual Contributor"} -> 500
      [] OTHER -> 0

\* the seniority_bonus table, in thousandths
seniority_bonus(seniority) ==
    CASE seniority = "Executive" -> 5000
      [] seniority = "Senior Leadership" -> 3000
      [] seniority = "Mid-Level Management" -> 1500
      [] seniority = "Individual Contributor" -> 500
      [] OTHER -> 0

\* calculate_influence_score raises: one of its three int() calls fails
InfluenceRaises(employee) ==
    \/ IntFails(employee.connections)
    \/ IntFails(employee.followers)
    \/ IntFails(employee.recommendations_count)

\* network_score with followers subtracted instead of added
network_score_subtracts(connections, followers) == Min(connections - followers, 10000)

\* network_score = min((connections + followers) / 1000, 10.0), in thousandths
network_score(connections, followers) == Min(connections + followers, 10000)

\* calculate_influence_score without the cap of the recommendation bonus
calculate_influence_score_uncapped(employee) ==
    LET connections == IntOr(employee.connections)
        followers == IntOr(employee.followers)
        recommendations_count == IntOr(employee.recommendations_count)
        recommendation_bonus == recommendations_count * 500
        title == get_primary_title(employee)
        seniority ==
            calculate_seniority_level(title, employee.connections, employee.followers)
    IN  network_score(connections, followers) + recommendation_bonus
        + seniority_bonus(seniority)

\* calculate_influence_score(employee), in thousandths
calculate_influence_score(employee) ==
    LET connections == IntOr(employee.connections)
        followers == IntOr(employee.followers)
        recommendations_count == IntOr(employee.recommendations_count)
        recommendation_bonus == Min(recommendations_count * 500, 5000)
        title == get_primary_title(employee)
        seniority ==
            calculate_seniority_level(title, employee.connections, employee.followers)
    IN  network_score(connections, followers) + recommendation_bonus
        + seniority_bonus(seniority)

\* the loop body of analyze_all_employees_for_buyer_group raises ValueError
ProcessRaises(emp) ==
    \/ SeniorityRaises(get_primary_title(emp), emp.connections, emp.followers)
    \/ InfluenceRaises(emp)

\* the dict appended to processed_employees
ProcessedEmployee(emp) ==
    LET title == get_primary_title(emp) IN
    [name |-> IF emp.id = "" THEN "Unknown" ELSE emp.id,
     title |-> title,
     department |-> categorize_department(title, emp.about),
     seniority |-> calculate_seniority_level(title, emp.connections, emp.followers),
     influence_score |-> calculate_influence_score(emp),
     connections |-> emp.connections,
     followers |-> emp.followers,
     about |-> IF emp.about # "" THEN emp.about \o "..." ELSE ""]

\* list.sort(key=influence_score, reverse=True): stable, highest first
SortByInfluence(emps) ==
    LET rank(i) == Cardinality({j \in 1..Len(emps) :
                       \/ emps[j].influence_score > emps[i].influence_score
                       \/ /\ emps[j].influence_score = emps[i].influence_score
                          /\ j < i}) + 1
    IN  [k \in 1..Len(emps) |-> emps[CHOOSE i \in 1..Len(emps) : rank(i) = k]]

\* priority_departments
priority_departments == <<"Sales & Revenue Operations", "Marketing", "Operations & Business",
                          "Executive & Leadership", "Engineering & Product",
                          "Customer Success & Support">>

\* the size of the optimal buyer group
GroupLimit == 8

\* s[:n]
Take(s, n) == SubSeq(s, 1, Min(n, Len(s)))

\* emp in lst
InList(emp, lst) == \E i \in 1..Len(lst) : lst[i] = emp

\* optimal_buyer_group after the loop over the first k priority departments
RECURSIVE PriorityPicks(_, _)
PriorityPicks(sorted, k) ==
    IF k = 0 THEN <<>>
    ELSE PriorityPicks(sorted, k - 1)
         \o Take(SelectSeq(sorted, LAMBDA emp : emp.department = priority_departments[k]), 2)

\* the selection without the final optimal_buyer_group[:8]
SelectOptimalGroup_no_limit(sorted) ==
    LET picks == PriorityPicks(sorted, Len(priority_departments))
        remaining_employees == SelectSeq(sorted, LAMBDA emp : ~InList(emp, picks))
    IN  IF Len(picks) < GroupLimit
        THEN picks \o Take(remaining_employees, GroupLimit - Len(picks))
        ELSE picks

\* the selection of the optimal buyer group from the sorted list
SelectOptimalGroup(sorted) ==
    LET picks == PriorityPicks(sorted, Len(priority_departments))
        remaining_employees == SelectSeq(sorted, LAMBDA emp : ~InList(emp, picks))
        filled == IF Len(picks) < GroupLimit
                  THEN picks \o Take(remaining_employees, GroupLimit - Len(picks))
                  ELSE picks
    IN  Take(filled, GroupLimit)

RoleNames == <<"Decision Makers", "Champions", "Stakeholders", "Blockers", "Introducers">>

\* the condition of each branch of the role chain, taken on its own
RoleCondition(emp, k) ==
    LET seniority == emp.seniority
        influence == emp.influence_score
        department == emp.department
    IN  CASE k = 1 -> seniority = "Executive" /\ influence >= 8000
          [] k = 2 -> \/ seniority \in {"Executive", "Senior Leadership"} /\ influence >= 6000
                      \/ /\ department \in {"Sales & Revenue Operations", "Marketing"}
                         /\ influence >= 5000
          [] k = 3 -> /\ seniority \in {"Senior Leadership", "Mid-Level Management"}
                      /\ influence >= 4000
          [] k = 4 -> influence < 3000 \/ department = "Other"
          [] k = 5 -> TRUE

\* the role chain written with `if` in place of `elif`: every branch whose
\* own condition holds appends, the else branch only when none does
AppendedTo_if(emp) ==
    IF \E k \in 1..4 : RoleCondition(emp, k)
    THEN {k \in 1..4 : RoleCondition(emp, k)}
    ELSE {5}

\* the lists the if / elif / else chain appends emp to: the first branch
\* whose condition holds
AppendedTo(emp) ==
    {k \in 1..5 : RoleCondition(emp, k) /\ \A j \in 1..(k - 1) : ~RoleCondition(emp, j)}

\* buyer_groups after the categorisation loop, as a sequence in the order
\* of RoleNames
CategorizeRoles(group) ==
    [k \in 1..5 |-> SelectSeq(group, LAMBDA emp : k \in AppendedTo(emp))]

----------------------------------------------------------------------------
(***************************************************************************)
(* analyze_clumio_expanded_buyer_group.py.  load_clumio_data,              *)
(* get_primary_title and the seniority_bonus table are line for line those *)
(* of the Yello script; the keyword lists, the selection of the optimal    *)
(* buyer group and the role chain differ.                                  *)
(***************************************************************************)
\* department_keywords of the Clumio script: four sales keywords, one
\* marketing keyword and one customer keyword fewer
clumio_department_keywords ==
    [department_keywords EXCEPT
        ![1].kws = @ \ {"business development representative", "bdr", "sdr", "client manager"},
        ![2].kws = @ \ {"brand content"},
        ![4].kws = @ \ {"client manager"}]

\* categorize_department(title, about) of the Clumio script
clumio_categorize_department(title, about) ==
    LET combined_text == Lower(title) \o " " \o Lower(about)
        hits == {k \in 1..Len(clumio_department_keywords) :
                    ContainsAny(clumio_department_keywords[k].kws, combined_text)}
    IN  IF hits # {}
        THEN clumio_department_keywords[CHOOSE k \in hits : \A j \in hits : k <= j].dept
        ELSE "Other"

\* does the title match one of the keyword tiers of the Clumio script
ClumioSeniorityKeywordMatches(title) ==
    ContainsAny({"ceo", "cto", "cfo", "coo", "president", "founder", "co-founder",
                 "vice president", "vp", "director", "head of", "chief",
                 "manager", "lead", "senior", "principal",
                 "engineer", "developer", "analyst", "specialist", "coordinator"},
                Lower(title))

\* calculate_seniority_level(title, connections, followers) of the Clumio
\* script: 'representative' is not an individual-contributor keyword
clumio_calculate_seniority_level(title, connections, followers) ==
    LET title_lower == Lower(title)
        total_network == IntOr(connections) + IntOr(followers)
    IN  IF ContainsAny({"ceo", "cto", "cfo", "coo", "president", "founder", "co-founder"},
                       title_lower)
        THEN "Executive"
        ELSE IF ContainsAny({"vice president", "vp", "director", "head of", "chief"},
                            title_lower)
        THEN "Senior Leadership"
        ELSE IF ContainsAny({"manager", "lead", "senior", "principal"}, title_lower)
        THEN "Mid-Level Management"
        ELSE IF ContainsAny({"engineer", "developer", "analyst", "specialist",
                             "coordinator"}, title_lower)
        THEN "Individual Contributor"
        ELSE IF total_network > 2000 THEN "Senior Leadership"
        ELSE IF total_network > 1000 THEN "Mid-Level Management"
        ELSE "Individual Contributor"

\* calculate_influence_score(employee) of the Clumio script, in thousandths
clumio_calculate_influence_score(employee) ==
    LET connections == IntOr(employee.connections)
        followers == IntOr(employee.followers)
        recommendations_count == IntOr(employee.recommendations_count)
        recommendation_bonus == Min(recommendations_count * 500, 5000)
        title == get_primary_title(employee)
        seniority ==
            clumio_calculate_seniority_level(title, employee.connections, employee.followers)
    IN  network_score(connections, followers) + recommendation_bonus
        + seniority_bonus(seniority)

\* the loop body of the Clumio script raises ValueError
ClumioProcessRaises(emp) ==
    \/ /\ ~ClumioSeniorityKeywordMatches(get_primary_title(emp))
       /\ (IntFails(emp.connections) \/ IntFails(emp.followers))
    \/ InfluenceRaises(emp)

\* the dict the Clumio script appends to processed_employees
ClumioProcessedEmployee(emp) ==
    LET title == get_primary_title(emp) IN
    [name |-> IF emp.id = "" THEN "Unknown" ELSE emp.id,
     title |-> title,
     department |-> clumio_categorize_department(title, emp.about),
     seniority |-> clumio_calculate_seniority_level(title, emp.connections, emp.followers),
     influence_score |-> clumio_calculate_influence_score(emp),
     connections |-> emp.connections,
     followers |-> emp.followers,
     about |-> IF emp.about # "" THEN emp.about \o "..." ELSE ""]

\* optimal_buyer_group after the inner loop over the first n of the two
\* highest of a department
RECURSIVE ClumioAddTop(_, _, _)
ClumioAddTop(group, top, n) ==
    IF n = 0 THEN group
    ELSE LET before == ClumioAddTop(group, top, n - 1)
         IN  IF Len(before) < GroupLimit /\ ~InList(top[n], before)
             THEN Append(before, top[n])
             ELSE before

\* optimal_buyer_group after the loop over the first k priority departments
RECURSIVE ClumioPriorityPicks(_, _)
ClumioPriorityPicks(sorted, k) ==
    IF k = 0 THEN <<>>
    ELSE LET dept_employees ==
                 SortByInfluence(SelectSeq(sorted,
                     LAMBDA emp : emp.department = priority_departments[k]))
             top == Take(dept_employees, 2)
         IN  ClumioAddTop(ClumioPriorityPicks(sorted, k - 1), top, Len(top))

\* the selection of the optimal buyer group of the Clumio script; the fill
\* loop appends the remaining employees in order while the group is short
ClumioSelectOptimalGroup(sorted) ==
    LET picks == ClumioPriorityPicks(sorted, Len(priority_departments))
        remaining_employees == SelectSeq(sorted, LAMBDA emp : ~InList(emp, picks))
    IN  picks \o Take(remaining_employees, GroupLimit - Len(picks))

\* the condition of each branch of the role chain of the Clumio script
ClumioRoleCondition(emp, k) ==
    LET seniority == emp.seniority
        influence == emp.influence_score
    IN  CASE k = 1 -> seniority = "Executive" /\ influence >= 8000
          [] k = 2 -> seniority \in {"Executive", "Senior Leadership"} /\ influence >= 6000
          [] k = 3 -> /\ seniority \in {"Senior Leadership", "Mid-Level Management"}
                      /\ influence >= 4000
          [] k = 4 -> influence < 3000
          [] k = 5 -> TRUE

\* the list the if / elif / else chain of the Clumio script appends emp to
ClumioAppendedTo(emp) ==
    {k \in 1..5 : ClumioRoleCondition(emp, k)
                   /\ \A j \in 1..(k - 1) : ~ClumioRoleCondition(emp, j)}

\* buyer_groups of the Clumio script after the categorisation loop
ClumioCategorizeRoles(group) ==
    [k \in 1..5 |-> SelectSeq(group, LAMBDA emp : k \in ClumioAppendedTo(emp))]

----------------------------------------------------------------------------
(***************************************************************************)
(* The csv files and the two scripts that read them.                       *)
(***************************************************************************)
\* a count as csv.DictReader delivers it: a number is a string of digits
CsvCount(c) == IF c.k = "int" THEN [k |-> "numstr", v |-> c.v] ELSE c

\* the record as a row of the csv file
CsvRow(p) ==
    [p EXCEPT !.connections = CsvCount(p.connections),
              !.followers = CsvCount(p.followers),
              !.recommendations_count = CsvCount(p.recommendations_count)]

CsvBatches == { [i \in 1..Len(b) |-> CsvRow(b[i])] : b \in Batches }

\* the templates of the batches larger than the optimal buyer group, in a
\* fixed order: one for each priority department, one for a department
\* without priority, and a sales record without a name
SelectTemplates ==
    << Titled("President of Sales", 100, 0, 0), Titled("Marketing Manager", 300, 100, 0),
       Titled("Operations Manager", 800, 200, 0), Titled("CEO", 5000, 4000, 9),
       SoftwareEngineer, ExperienceTitleOnly,
       Titled("Director of Finance", 100, 0, 0), Untitled("Sales Manager", 100) >>

\* the template indexes of the batch with counts[j] records of template j
\* for j up to k
RECURSIVE Repeated(_, _)
Repeated(counts, k) ==
    IF k = 0 THEN <<>>
    ELSE Repeated(counts, k - 1) \o [i \in 1..counts[k] |-> k]

\* the csv files with no record, one record or n records of each template,
\* n being more than the two a priority department contributes; the
\* nameless record never alone
SelectBatchesUpTo(n) ==
    { LET f == Repeated(c, Len(SelectTemplates))
      IN  [i \in 1..Len(f) |-> CsvRow(PersonRecord(SelectTemplates[f[i]], i))] :
      c \in { d \in [1..Len(SelectTemplates) -> {0, 1, n}] :
                /\ d[Len(SelectTemplates)] # 1
                /\ \E k \in 1..Len(SelectTemplates) : d[k] > 0 } }

\* every row a csv file can hold
AllRows ==
    { CsvRow(q) : q \in AllPersons }
    \cup { CsvRow(PersonRecord(SelectTemplates[k], i)) :
              k \in 1..Len(SelectTemplates),
              i \in 1..(MaxPerDepartment * Len(SelectTemplates)) }

\* the loop body of analyze_all_employees_for_buyer_group on every row,
\* evaluated once
ProcessMemo ==
    [p \in AllRows |-> [raises |-> ProcessRaises(p), out |-> ProcessedEmployee(p)]]

\* the loop body of the Clumio script on every row, evaluated once
ClumioProcessMemo ==
    [p \in AllRows |->
        [raises |-> ClumioProcessRaises(p), out |-> ClumioProcessedEmployee(p)]]

\* the three steps of analyze_all_employees_for_buyer_group in the script
\* that is running
ProcessOf(row) == IF script = "clumio" THEN ClumioProcessMemo[row] ELSE ProcessMemo[row]

SelectOf(sorted) ==
    IF script = "clumio" THEN ClumioSelectOptimalGroup(sorted) ELSE SelectOptimalGroup(sorted)

CategorizeOf(group) ==
    IF script = "clumio" THEN ClumioCategorizeRoles(group) ELSE CategorizeRoles(group)

\* the scripts that read a csv file
CsvScripts == {"yello", "clumio"}

----------------------------------------------------------------------------
(***************************************************************************)
(* The state machine.                                                      *)
(***************************************************************************)
\* the state of a script at its launch, the input batch apart
Launch ==
    /\ pc = IF script = "mux" THEN "enrich"
            ELSE IF script = "find_clumio" THEN "wait" ELSE "load"
    /\ idx = 1
    /\ err = ""
    /\ run = 1
    /\ enriched = <<>>
    /\ buyer_groups = <<>>
    /\ prev_enriched = <<>>
    /\ prev_groups = <<>>
    /\ employees = <<>>
    /\ processed_employees = <<>>
    /\ optimal_buyer_group = <<>>
    /\ role_lists = [k \in 1..5 |-> <<>>]
    /\ report = NoReport
    /\ cur = <<>>
    /\ attempt = 0
    /\ checks = 0
    /\ status = "none"
    /\ returned = "none"

Init ==
    /\ script \in {"mux", "yello"}
    /\ rows \in (IF script = "mux" THEN Batches ELSE CsvBatches)
    /\ Launch

MuxVars == <<enriched, buyer_groups, prev_enriched, prev_groups, report, cur>>

YelloVars == <<employees, processed_employees, optimal_buyer_group, role_lists>>

WaitVars == <<attempt, checks, status, returned>>

\* one iteration of [self.enrich_person(person) for person in people]
MuxEnrichPerson ==
    /\ script = "mux" /\ pc = "enrich" /\ idx <= Len(rows)
    /\ ~EnrichMemo[rows[idx]].raises
    /\ \E choice \in (IF EnrichMemo[rows[idx]].random THEN RandomDepts ELSE {"none"}) :
          enriched' = Append(enriched, EnrichMemo[rows[idx]].out[choice])
    /\ idx' = idx + 1
    /\ pc' = IF idx = Len(rows) THEN "group" ELSE "enrich"
    /\ UNCHANGED <<script, rows, err, run, buyer_groups, prev_enriched, prev_groups, report, cur>>
    /\ UNCHANGED YelloVars
    /\ UNCHANGED WaitVars

\* enrich_person raises; the exception ends the script
MuxEnrichRaises ==
    /\ script = "mux" /\ pc = "enrich" /\ idx <= Len(rows)
    /\ EnrichMemo[rows[idx]].raises
    /\ pc' = "raised"
    /\ err' = "TypeError"
    /\ UNCHANGED <<script, rows, idx, run, enriched, buyer_groups, prev_enriched, prev_groups,
                   report, cur>>
    /\ UNCHANGED YelloVars
    /\ UNCHANGED WaitVars

\* buyer_groups = self.identify_buyer_groups(enriched_people)
MuxIdentifyBuyerGroups ==
    /\ script = "mux" /\ pc = "group"
    /\ buyer_groups' = identify_buyer_groups(enriched)
    /\ pc' = "report"
    /\ UNCHANGED <<script, rows, idx, err, run, enriched, prev_enriched, prev_groups,
                   report, cur>>
    /\ UNCHANGED YelloVars
    /\ UNCHANGED WaitVars

\* report = self.generate_buyer_group_report(enriched_people, buyer_groups)
MuxGenerateReport ==
    /\ script = "mux" /\ pc = "report"
    /\ report' = generate_buyer_group_report(enriched, buyer_groups)
    /\ pc' = "done"
    /\ UNCHANGED <<script, rows, idx, err, run, enriched, buyer_groups, prev_enriched,
                   prev_groups, cur>>
    /\ UNCHANGED YelloVars
    /\ UNCHANGED WaitVars

\* the script is launched again on the same input file
MuxRunAgain ==
    /\ script = "mux" /\ pc = "done" /\ run = 1
    /\ run' = 2
    /\ prev_enriched' = enriched
    /\ prev_groups' = buyer_groups
    /\ enriched' = <<>>
    /\ buyer_groups' = <<>>
    /\ report' = NoReport
    /\ idx' = 1
    /\ pc' = "enrich"
    /\ UNCHANGED <<script, rows, err, cur>>
    /\ UNCHANGED YelloVars
    /\ UNCHANGED WaitVars

\* load_yello_data: a row whose cells parse is appended to employees
YelloLoadRow ==
    /\ script \in CsvScripts /\ pc = "load" /\ idx <= Len(rows)
    /\ ~RowIsSkipped(rows[idx])
    /\ employees' = Append(employees, rows[idx])
    /\ idx' = IF idx = Len(rows) THEN 1 ELSE idx + 1
    /\ pc' = IF idx = Len(rows) THEN "process" ELSE "load"
    /\ UNCHANGED <<script, rows, err, run, processed_employees, optimal_buyer_group, role_lists>>
    /\ UNCHANGED MuxVars
    /\ UNCHANGED WaitVars

\* load_yello_data: json.loads raises JSONDecodeError, the except branch
\* prints and continues with the next row
YelloSkipRow ==
    /\ script \in CsvScripts /\ pc = "load" /\ idx <= Len(rows)
    /\ RowIsSkipped(rows[idx])
    /\ idx' = IF idx = Len(rows) THEN 1 ELSE idx + 1
    /\ pc' = IF idx = Len(rows)
             THEN (IF employees = <<>> THEN "select" ELSE "process")
             ELSE "load"
    /\ UNCHANGED <<script, rows, err, run, employees, processed_employees,
                   optimal_buyer_group, role_lists>>
    /\ UNCHANGED MuxVars
    /\ UNCHANGED WaitVars

\* one iteration of the loop `for emp in employees` of
\* analyze_all_employees_for_buyer_group
YelloProcessEmployee ==
    /\ script \in CsvScripts /\ pc = "process" /\ idx <= Len(employees)
    /\ ~ProcessOf(employees[idx]).raises
    /\ processed_employees' = Append(processed_employees, ProcessOf(employees[idx]).out)
    /\ idx' = idx + 1
    /\ pc' = IF idx = Len(employees) THEN "select" ELSE "process"
    /\ UNCHANGED <<script, rows, err, run, employees, optimal_buyer_group, role_lists>>
    /\ UNCHANGED MuxVars
    /\ UNCHANGED WaitVars

\* int() raises ValueError in the loop; the exception ends the script
YelloProcessRaises ==
    /\ script \in CsvScripts /\ pc = "process" /\ idx <= Len(employees)
    /\ ProcessOf(employees[idx]).raises
    /\ pc' = "raised"
    /\ err' = "ValueError"
    /\ UNCHANGED <<script, rows, idx, run, employees, processed_employees,
                   optimal_buyer_group, role_lists>>
    /\ UNCHANGED MuxVars
    /\ UNCHANGED WaitVars

\* processed_employees.sort(...) and the selection of optimal_buyer_group
YelloSelectGroup ==
    /\ script \in CsvScripts /\ pc = "select"
    /\ processed_employees' = SortByInfluence(processed_employees)
    /\ optimal_buyer_group' = SelectOf(SortByInfluence(processed_employees))
    /\ pc' = "categorize"
    /\ UNCHANGED <<script, rows, idx, err, run, employees, role_lists>>
    /\ UNCHANGED MuxVars
    /\ UNCHANGED WaitVars

\* the loop `for emp in optimal_buyer_group` that fills the five role lists
YelloCategorize ==
    /\ script \in CsvScripts /\ pc = "categorize"
    /\ role_lists' = CategorizeOf(optimal_buyer_group)
    /\ pc' = "done"
    /\ UNCHANGED <<script, rows, idx, err, run, employees, processed_employees,
                   optimal_buyer_group>>
    /\ UNCHANGED MuxVars
    /\ UNCHANGED WaitVars

\* one launch of one script
Next ==
    \/ MuxEnrichPerson
    \/ MuxEnrichRaises
    \/ MuxIdentifyBuyerGroups
    \/ MuxGenerateReport
    \/ YelloLoadRow
    \/ YelloSkipRow
    \/ YelloProcessEmployee
    \/ YelloProcessRaises
    \/ YelloSelectGroup
    \/ YelloCategorize

Spec == Init /\ [][Next]_vars

(***************************************************************************)
(* The Mux script launched twice on the same input file.                   *)
(***************************************************************************)
MaxRerunBatch == 2

InitRerun ==
    /\ Init
    /\ script = "mux"
    /\ Len(rows) <= MaxRerunBatch

NextRerun ==
    \/ MuxEnrichPerson
    \/ MuxEnrichRaises
    \/ MuxIdentifyBuyerGroups
    \/ MuxGenerateReport
    \/ MuxRunAgain

SpecRerun == InitRerun /\ [][NextRerun]_vars

(***************************************************************************)
(* enrich_person statement by statement: cur holds the local variables     *)
(* assigned so far for the person at idx, in the order of assignment.      *)
(***************************************************************************)
\* the local variables of enrich_person in the order the role is assigned
\* first
EnrichSteps_role_first ==
    <<"title", "department", "team", "standardized_title", "seniority_level",
      "buyer_group_role", "decision_making_power", "influence_score",
      "flight_risk_score", "executive_character", "org_structure">>

\* the local variables of enrich_person in the order its statements assign
\* them (enrichment_confidence is assigned with title)
EnrichSteps ==
    <<"title", "department", "team", "standardized_title", "seniority_level",
      "decision_making_power", "buyer_group_role", "influence_score",
      "flight_risk_score", "executive_character", "org_structure">>

\* the local variables the statement that assigns `step` passes as arguments
StepReads(step) ==
    CASE step = "department" -> {"title"}
      [] step = "team" -> {"title", "department"}
      [] step = "standardized_title" -> {"title"}
      [] step = "seniority_level" -> {"title"}
      [] step = "decision_making_power" -> {"title", "department"}
      [] step = "buyer_group_role" -> {"title", "department", "decision_making_power"}
      [] step = "influence_score" -> {"decision_making_power"}
      [] step = "org_structure" -> {"department"}
      [] OTHER -> {}

\* the local variables assigned so far
Computed == {cur[k].field : k \in 1..Len(cur)}

\* the statement raises TypeError: the comparisons of the inference branch,
\* or connections > 500 in calculate_influence_score
StepRaises(person, step) ==
    \/ /\ step = "title"
       /\ IsPlaceholder(TextOr(person.position))
       /\ \/ IsStrCount(person.connections)
          \/ CountOr(person.connections) <= 500 /\ IsStrCount(person.followers)
    \/ /\ step = "influence_score"
       /\ IsStrCount(person.connections)

\* the values of random.choice that agree with the department assigned so far
Choices(person) ==
    IF ~EnrichMemo[person].random THEN {"none"}
    ELSE IF "department" \in Computed
    THEN {c \in RandomDepts :
            \A k \in 1..Len(cur) :
               cur[k].field = "department" => cur[k].value = c}
    ELSE RandomDepts

\* one statement of enrich_person
MuxEnrichStep ==
    /\ script = "mux" /\ pc = "enrich" /\ idx <= Len(rows)
    /\ Len(cur) < Len(EnrichSteps)
    /\ LET step == EnrichSteps[Len(cur) + 1] IN
          /\ ~StepRaises(rows[idx], step)
          /\ \E choice \in Choices(rows[idx]) :
                cur' = Append(cur, [field |-> step,
                                    value |-> EnrichMemo[rows[idx]].out[choice][step]])
    /\ UNCHANGED <<script, rows, pc, idx, err, run, enriched, buyer_groups, prev_enriched,
                   prev_groups, report>>
    /\ UNCHANGED YelloVars
    /\ UNCHANGED WaitVars

\* a statement of enrich_person raises; the exception ends the script
MuxStepRaises ==
    /\ script = "mux" /\ pc = "enrich" /\ idx <= Len(rows)
    /\ Len(cur) < Len(EnrichSteps)
    /\ StepRaises(rows[idx], EnrichSteps[Len(cur) + 1])
    /\ pc' = "raised"
    /\ err' = "TypeError"
    /\ UNCHANGED <<script, rows, idx, run, enriched, buyer_groups, prev_enriched, prev_groups,
                   report, cur>>
    /\ UNCHANGED YelloVars
    /\ UNCHANGED WaitVars

\* return EnrichedPerson(...): the result joins the list comprehension
MuxEnrichReturn ==
    /\ script = "mux" /\ pc = "enrich" /\ idx <= Len(rows)
    /\ Len(cur) = Len(EnrichSteps)
    /\ \E choice \in Choices(rows[idx]) :
          enriched' = Append(enriched, EnrichMemo[rows[idx]].out[choice])
    /\ cur' = <<>>
    /\ idx' = idx + 1
    /\ pc' = IF idx = Len(rows) THEN "group" ELSE "enrich"
    /\ UNCHANGED <<script, rows, err, run, buyer_groups, prev_enriched, prev_groups, report>>
    /\ UNCHANGED YelloVars
    /\ UNCHANGED WaitVars

MaxStageBatch == 2

InitStages ==
    /\ Init
    /\ script = "mux"
    /\ Len(rows) <= MaxStageBatch

NextStages ==
    \/ MuxEnrichStep
    \/ MuxStepRaises
    \/ MuxEnrichReturn
    \/ MuxIdentifyBuyerGroups
    \/ MuxGenerateReport

SpecStages == InitStages /\ [][NextStages]_vars

(***************************************************************************)
(* The Mux script on batches large enough for several buyer groups.        *)
(***************************************************************************)
InitGroups ==
    /\ script = "mux"
    /\ rows \in GroupBatchesUpTo(MaxGroupBatch) \cup RoleMixBatchesUpTo(MaxMixBatch)
    /\ Launch

NextGroups ==
    \/ MuxEnrichPerson
    \/ MuxIdentifyBuyerGroups
    \/ MuxGenerateReport

SpecGroups == InitGroups /\ [][NextGroups]_vars

(***************************************************************************)
(* The Yello and the Clumio script on the same csv files, those larger     *)
(* than the optimal buyer group included.                                  *)
(***************************************************************************)
InitSelect ==
    /\ script \in CsvScripts
    /\ rows \in CsvBatches \cup SelectBatchesUpTo(MaxPerDepartment)
    /\ Launch

NextSelect ==
    \/ YelloLoadRow
    \/ YelloSkipRow
    \/ YelloProcessEmployee
    \/ YelloProcessRaises
    \/ YelloSelectGroup
    \/ YelloCategorize

SpecSelect == InitSelect /\ [][NextSelect]_vars

(***************************************************************************)
(* find_clumio_buyer_group.py: wait_for_snapshot.  The answer of the       *)
(* provider to each status check is any of: status completed, status       *)
(* failed, another status or none, a response other than 200, an exception *)
(* of requests.get or response.json.                                       *)
(***************************************************************************)
max_attempts == 30

\* the statuses other than completed and failed, a missing status included
OtherStatuses == {"running", "pending", "missing"}

\* the loop is entered and the check observes status completed: return True
WaitCompleted ==
    /\ script = "find_clumio" /\ pc = "wait" /\ attempt < max_attempts
    /\ checks' = checks + 1
    /\ status' = "completed"
    /\ returned' = "True"
    /\ pc' = "done"
    /\ UNCHANGED <<attempt, script, rows, idx, err, run,
                   MuxVars, YelloVars>>

\* the check observes status failed: return False
WaitFailed ==
    /\ script = "find_clumio" /\ pc = "wait" /\ attempt < max_attempts
    /\ checks' = checks + 1
    /\ status' = "failed"
    /\ returned' = "False"
    /\ pc' = "done"
    /\ UNCHANGED <<attempt, script, rows, idx, err, run,
                   MuxVars, YelloVars>>

\* the check observes another status; a forgotten attempt += 1
WaitStillProcessing_no_increment ==
    /\ script = "find_clumio" /\ pc = "wait" /\ attempt < max_attempts
    /\ checks <= max_attempts
    /\ checks' = checks + 1
    /\ status' \in OtherStatuses
    /\ UNCHANGED <<attempt, returned, pc, script, rows, idx, err, run,
                   MuxVars, YelloVars>>

\* the check observes another status: attempt += 1, sleep, next iteration
WaitStillProcessing ==
    /\ script = "find_clumio" /\ pc = "wait" /\ attempt < max_attempts
    /\ checks' = checks + 1
    /\ status' \in OtherStatuses
    /\ attempt' = attempt + 1
    /\ UNCHANGED <<returned, pc, script, rows, idx, err, run,
                   MuxVars, YelloVars>>

\* response.status_code is not 200: return False
WaitBadResponse ==
    /\ script = "find_clumio" /\ pc = "wait" /\ attempt < max_attempts
    /\ checks' = checks + 1
    /\ status' = "not_200"
    /\ returned' = "False"
    /\ pc' = "done"
    /\ UNCHANGED <<attempt, script, rows, idx, err, run,
                   MuxVars, YelloVars>>

\* requests.get or response.json raises: the except branch returns False
WaitRequestError ==
    /\ script = "find_clumio" /\ pc = "wait" /\ attempt < max_attempts
    /\ checks' = checks + 1
    /\ status' = "exception"
    /\ returned' = "False"
    /\ pc' = "done"
    /\ UNCHANGED <<attempt, script, rows, idx, err, run,
                   MuxVars, YelloVars>>

\* the loop condition fails: "Snapshot timed out", return False
WaitTimedOut ==
    /\ script = "find_clumio" /\ pc = "wait" /\ attempt >= max_attempts
    /\ returned' = "False"
    /\ pc' = "done"
    /\ UNCHANGED <<attempt, checks, status, script, rows, idx, err, run,
                   MuxVars, YelloVars>>

InitWait ==
    /\ script = "find_clumio"
    /\ rows = <<>>
    /\ Launch

NextWait ==
    \/ WaitCompleted
    \/ WaitFailed
    \/ WaitStillProcessing
    \/ WaitBadResponse
    \/ WaitRequestError
    \/ WaitTimedOut

SpecWait == InitWait /\ [][NextWait]_vars

\* every requests.get returns or raises within its timeout and every sleep
\* ends, so the function takes its next step as long as it has one
SpecWaitFair == SpecWait /\ WF_vars(NextWait)

----------------------------------------------------------------------------
(***************************************************************************)
(* Properties.                                                             *)
(***************************************************************************)
MuxDone == script = "mux" /\ pc = "done"
YelloDone == script = "yello" /\ pc = "done"

\* the departments of the enriched people
Departments == {enriched[i].department : i \in 1..Len(enriched)}

\* the departments with 1 or 2 members
SmallDepartments == {d \in Departments : Len(DeptPeople(enriched, d)) \in {1, 2}}

\* C1: every person of the batch appears in exactly one emitted buyer group:
\* the member lists of the groups returned by identify_buyer_groups are
\* pairwise disjoint and their union is the whole batch.
C1_GroupsPartitionBatch ==
    MuxDone =>
        /\ \A i \in 1..Len(rows) :
              Cardinality({g \in 1..Len(buyer_groups) :
                              InList(rows[i].id, buyer_groups[g].members)}) = 1
        /\ SumSeq([g \in 1..Len(buyer_groups) |-> Len(buyer_groups[g].members)]) = Len(rows)

\* C2: a department with exactly 1 or 2 members gets no standalone group and
\* its members appear in a single company-wide fallback group instead.
C2_SmallTeamFolding ==
    (MuxDone /\ SmallDepartments # {}) =>
        /\ \A d \in SmallDepartments :
              \A g \in 1..Len(buyer_groups) : buyer_groups[g].department # d
        /\ \E g \in 1..Len(buyer_groups) :
              \A i \in 1..Len(enriched) :
                  enriched[i].department \in SmallDepartments
                      => InList(enriched[i].id, buyer_groups[g].members)

\* C3: running the engine twice on the identical input batch yields identical
\* EnrichedPerson and BuyerGroup outputs.
C3_RerunIdentical ==
    (MuxDone /\ run = 2) =>
        /\ enriched = prev_enriched
        /\ buyer_groups = prev_groups

\* C4: for every person record, whatever the magnitude of its counts,
\* decision_power and flight_risk lie in [0,1] and influence_score is >= 0.
C4_ScoresInRange ==
    /\ \A i \in 1..Len(enriched) :
          /\ enriched[i].decision_making_power >= 0
          /\ enriched[i].decision_making_power <= 1000
          /\ enriched[i].flight_risk_score >= 0
          /\ enriched[i].flight_risk_score <= 1000
          /\ enriched[i].influence_score >= 0
    /\ \A i \in 1..Len(processed_employees) :
          processed_employees[i].influence_score >= 0

\* a record with a huge network and one with more followers than connections
\* have been scored
C4_Witness ==
    /\ script = "yello"
    /\ \E i \in 1..Len(processed_employees) :
          /\ processed_employees[i].connections.v = Huge
          /\ processed_employees[i].influence_score = 20000
    /\ \E i \in 1..Len(processed_employees) :
          processed_employees[i].followers.v > processed_employees[i].connections.v

MuxRoles == {"decision_maker", "champion", "stakeholder", "blocker", "opener"}

\* C5: exactly one buyer-group role is assigned to every person and it is one
\* of the five roles; in the list-based variant every selected person lands
\* in exactly one of the five role lists.
C5_ExactlyOneRole ==
    /\ \A i \in 1..Len(enriched) : enriched[i].buyer_group_role \in MuxRoles
    /\ YelloDone =>
          /\ \A i \in 1..Len(optimal_buyer_group) :
                Cardinality({k \in 1..5 :
                                InList(optimal_buyer_group[i], role_lists[k])}) = 1
          /\ SumSeq([k \in 1..5 |-> Len(role_lists[k])]) = Len(optimal_buyer_group)

\* three selected people spread over at least two role lists, one of them
\* satisfying the condition of more than one branch
C5_Witness ==
    /\ YelloDone
    /\ Len(optimal_buyer_group) = 3
    /\ Cardinality({k \in 1..5 : role_lists[k] # <<>>}) >= 2
    /\ \E i \in 1..3 :
          Cardinality({k \in 1..4 : RoleCondition(optimal_buyer_group[i], k)}) >= 2

SalesKeywords == department_keywords[1].kws
EngineeringKeywords == department_keywords[3].kws

\* the titles the two scripts can hold
YelloTitles == {ProcessMemo[p].out.title : p \in DOMAIN ProcessMemo}
MuxTitles == {EnrichMemo[p].out["none"].title : p \in DOMAIN EnrichMemo}

\* the title contains a sales keyword and an engineering keyword of
\* categorize_department
YelloSalesAndEngineering ==
    [title \in YelloTitles |->
        /\ ContainsAny(SalesKeywords, Lower(title))
        /\ ContainsAny(EngineeringKeywords, Lower(title))]

\* the sales pattern of department_patterns matches the title and the title
\* contains an engineering keyword (as a word or inside a word)
MuxSalesAndEngineering ==
    [title \in MuxTitles |->
        /\ ReSearch(department_patterns[1].kws, Lower(title))
        /\ ContainsAny(department_patterns[4].kws, Lower(title))]

\* C6: a title that contains both a sales keyword and an engineering keyword
\* is classified into the sales / revenue department.
C6_SalesBeforeEngineering ==
    /\ \A i \in 1..Len(processed_employees) :
          YelloSalesAndEngineering[processed_employees[i].title]
              => processed_employees[i].department = "Sales & Revenue Operations"
    /\ \A i \in 1..Len(enriched) :
          MuxSalesAndEngineering[enriched[i].title]
              => enriched[i].department = "Sales"

\* 'Sales Engineering Manager' has been classified
C6_Witness ==
    \E i \in 1..Len(processed_employees) :
        /\ processed_employees[i].title = "Sales Engineering Manager"
        /\ YelloSalesAndEngineering[processed_employees[i].title]
        /\ processed_employees[i].department = "Sales & Revenue Operations"

\* a title a person can be classified by
Usable(title) == title \notin {"", "--", "None"}

\* no usable title in position, current_company or the first experience entry
NoUsableTitle(person) ==
    /\ ~Usable(TextOr(person.position))
    /\ ~(person.current_company.k = "present" /\ Usable(person.current_company.s))
    /\ ~(person.experience.k = "present" /\ Usable(person.experience.s))

\* C7: a record with no usable title in any title field gets
\* enrichment_confidence <= 0.3, a record with a direct title field gets
\* >= 0.8, and EnrichedPerson carries the value set at title resolution.
C7_ConfidencePropagation ==
    script = "mux" =>
        \A i \in 1..Len(enriched) :
            /\ NoUsableTitle(rows[i]) => enriched[i].enrichment_confidence <= 300
            /\ Usable(TextOr(rows[i].position)) => enriched[i].enrichment_confidence >= 800
            /\ enriched[i].enrichment_confidence \in {300, 800}
            /\ enriched[i].enrichment_confidence = 300 <=> enriched[i].title # TextOr(rows[i].position)

\* a record with a placeholder position and one with a direct title have
\* both been enriched
C7_Witness ==
    /\ script = "mux"
    /\ \E i \in 1..Len(enriched) :
          /\ rows[i].position = Str("None")
          /\ NoUsableTitle(rows[i])
          /\ enriched[i].enrichment_confidence = 300
    /\ \E i \in 1..Len(enriched) :
          /\ Usable(TextOr(rows[i].position))
          /\ enriched[i].enrichment_confidence = 800

\* the batch of the end-to-end example
ExampleBatch ==
    <<PersonRecord(VPOfSales, 1), PersonRecord(SoftwareEngineer, 2), PersonRecord(NoTitle, 3)>>

\* the seniority tier a level of seniority_patterns stands for
TierOfLevel(level) ==
    CASE level = "executive" -> "Executive"
      [] level = "director" -> "Senior Leadership"
      [] level = "manager" -> "Mid-Level Management"
      [] OTHER -> "Individual Contributor"

\* the seniority calculate_seniority_level gives the record
YelloSeniority(person) ==
    calculate_seniority_level(get_primary_title(CsvRow(person)),
                              CsvRow(person).connections, CsvRow(person).followers)

\* C8: end-to-end example.  Person 1 is in the sales department with
\* senior-leadership seniority and role Champion or DecisionMaker, person 2
\* in engineering as individual contributor with role Introducer or
\* Stakeholder, person 3 has an inferred senior-sounding title and
\* enrichment_confidence <= 0.3, and all three are in one company-wide
\* group.  An attribute that both scripts compute is accepted from either.
C8_EndToEndExample ==
    (MuxDone /\ rows = ExampleBatch) =>
        /\ enriched[1].department = "Sales"
        /\ \/ TierOfLevel(enriched[1].seniority_level) = "Senior Leadership"
           \/ YelloSeniority(rows[1]) = "Senior Leadership"
        /\ enriched[1].buyer_group_role \in {"champion", "decision_maker"}
        /\ enriched[2].department = "Engineering"
        /\ TierOfLevel(enriched[2].seniority_level) = "Individual Contributor"
        /\ enriched[2].buyer_group_role \in {"opener", "stakeholder"}
        /\ enriched[3].title = "Senior Manager"
        /\ enriched[3].enrichment_confidence <= 300
        /\ \E g \in 1..Len(buyer_groups) :
              \A i \in 1..3 : InList(rows[i].id, buyer_groups[g].members)

\* the row with a cell that failed to parse read as absent
UnparsedAsAbsent(row) ==
    [row EXCEPT !.current_company = IF JsonFails(@) THEN Nested("absent", "") ELSE @,
                !.experience = IF JsonFails(@) THEN Nested("absent", "") ELSE @]

\* C9: a record whose experience or current-company field fails to parse is
\* kept in the batch and enriched from its other fields, the unparsed field
\* treated as absent; as many people are enriched as there are input records.
C9_MalformedRowKept ==
    (script = "yello" /\ pc \in {"process", "select", "categorize", "done"}) =>
        /\ Len(employees) = Len(rows)
        /\ \A i \in 1..Len(employees) : employees[i] = UnparsedAsAbsent(rows[i])
        /\ pc = "done" => Len(processed_employees) = Len(rows)

\* C10: a count that is absent, empty or non-numeric is treated as zero; no
\* such input makes the engine raise an error.
C10_CountsNeverRaise ==
    /\ pc # "raised"
    /\ err = ""

\* the closed department vocabulary and the four seniority tiers
ClosedDepartments ==
    {"Sales & Revenue Operations", "Marketing", "Engineering & Product",
     "Customer Success & Support", "Operations & Business", "HR & People",
     "Finance & Legal", "Executive & Leadership", "Other"}
SeniorityTiers ==
    {"Executive", "Senior Leadership", "Mid-Level Management", "Individual Contributor"}

\* the department of the closed vocabulary a label of infer_department
\* stands for
DepartmentOfLabel(label) ==
    CASE label = "Sales" -> "Sales & Revenue Operations"
      [] label \in {"Engineering", "Product"} -> "Engineering & Product"
      [] label = "Customer Success" -> "Customer Success & Support"
      [] label = "Operations" -> "Operations & Business"
      [] label = "Hr" -> "HR & People"
      [] label \in {"Finance", "Legal"} -> "Finance & Legal"
      [] label = "Executive" -> "Executive & Leadership"
      [] OTHER -> label

\* the title matches no keyword group of infer_department
MuxNoDepartmentKeyword ==
    [title \in MuxTitles |->
        LET title_lower == Lower(title) IN
        /\ \A k \in 1..Len(department_patterns) :
              ~ReSearch(department_patterns[k].kws, title_lower)
        /\ ~ContainsAny({"video", "streaming", "ingest", "processing", "product", "pm",
                         "lead product", "creative", "design", "solutions", "architect",
                         "support", "president", "coo"}, title_lower)]

\* the title and biography match no keyword group of categorize_department
YelloNoDepartmentKeyword ==
    [p \in DOMAIN ProcessMemo |->
        \A k \in 1..Len(department_keywords) :
            ~ContainsAny(department_keywords[k].kws,
                         Lower(ProcessMemo[p].out.title) \o " "
                         \o Lower(ProcessMemo[p].out.about))]

\* C11: every person is given exactly one department of the closed set and
\* exactly one of the four seniority tiers, and a title and biography that
\* match no department keyword group yield Other.
C11_ClosedVocabulary ==
    /\ \A i \in 1..Len(enriched) :
          /\ DepartmentOfLabel(enriched[i].department) \in ClosedDepartments
          /\ TierOfLevel(enriched[i].seniority_level) \in SeniorityTiers
          /\ MuxNoDepartmentKeyword[enriched[i].title] =>
                enriched[i].department = "Other"
    /\ script = "yello" /\ pc = "process" =>
          \A i \in 1..Len(processed_employees) :
             /\ processed_employees[i].department \in ClosedDepartments
             /\ processed_employees[i].seniority \in SeniorityTiers
             /\ YelloNoDepartmentKeyword[employees[i]] =>
                   processed_employees[i].department = "Other"

\* the position in buyer_groups of the group a recommendation refers to
GroupIndexOf(rec) == CHOOSE k \in 1..Len(buyer_groups) : buyer_groups[k].id = rec.buyer_group_id

\* the recommendations that refer to the group
RecommendationsFor(bg) ==
    SelectSeq(report.recommendations, LAMBDA rec : rec.buyer_group_id = bg.id)

\* C12: for every emitted buyer group without a Champion the recommendations
\* list holds a recommendation naming the group's department; the
\* recommendations are in the order of the groups they refer to; a group
\* with a Champion that is not high priority contributes none.
C12_RecommendationsFromGaps ==
    report.generated =>
       /\ \A k \in 1..Len(report.recommendations) :
             \E g \in 1..Len(buyer_groups) :
                buyer_groups[g].id = report.recommendations[k].buyer_group_id
       /\ \A g \in 1..Len(buyer_groups) :
             /\ buyer_groups[g].roles.champions = <<>> =>
                   \E k \in 1..Len(RecommendationsFor(buyer_groups[g])) :
                      Contains(buyer_groups[g].department,
                               RecommendationsFor(buyer_groups[g])[k].action)
             /\ (buyer_groups[g].roles.champions # <<>>
                 /\ buyer_groups[g].priority # "high") =>
                   RecommendationsFor(buyer_groups[g]) = <<>>
       /\ \A k, l \in 1..Len(report.recommendations) :
             k < l => GroupIndexOf(report.recommendations[k])
                         <= GroupIndexOf(report.recommendations[l])

\* two groups without a Champion, each with its recommendation
C12_Witness ==
    /\ report.generated
    /\ Len(buyer_groups) = 2
    /\ \A g \in 1..2 : buyer_groups[g].roles.champions = <<>>
    /\ Len(report.recommendations) >= 2
    /\ GroupIndexOf(report.recommendations[1])
          < GroupIndexOf(report.recommendations[Len(report.recommendations)])

\* the three title sources of a loaded row: a missing field, None, an empty
\* string and a cell of another shape all count as empty
PositionOf(row) == IF row.position.k = "str" THEN row.position.s ELSE ""
CompanyTitleOf(row) ==
    IF row.current_company.k = "present" THEN row.current_company.s ELSE ""
ExperienceTitleOf(row) == IF row.experience.k = "present" THEN row.experience.s ELSE ""

\* the rows processed so far, each next to the dict made of it
YelloProcessing == script = "yello" /\ pc \in {"process", "select"}

\* C13: get_primary_title takes the first non-empty of the position field,
\* the title inside current_company and the title of the first entry of
\* experience, in this order; a later source is used only when every earlier
\* one is empty or absent; the result is the empty string when all three are.
C13_TitleSourceOrder ==
    YelloProcessing =>
       \A i \in 1..Len(processed_employees) :
          LET title == processed_employees[i].title
              row == employees[i]
          IN  /\ PositionOf(row) # "" => title = PositionOf(row)
              /\ (PositionOf(row) = "" /\ CompanyTitleOf(row) # "") =>
                    title = CompanyTitleOf(row)
              /\ (PositionOf(row) = "" /\ CompanyTitleOf(row) = "") =>
                    title = ExperienceTitleOf(row)

\* one row resolved from current_company although experience has a title,
\* and one resolved from experience
C13_Witness ==
    /\ YelloProcessing
    /\ \E i \in 1..Len(processed_employees) :
          /\ PositionOf(employees[i]) = ""
          /\ CompanyTitleOf(employees[i]) # ""
          /\ ExperienceTitleOf(employees[i]) \notin {"", CompanyTitleOf(employees[i])}
          /\ processed_employees[i].title = CompanyTitleOf(employees[i])
    /\ \E i \in 1..Len(processed_employees) :
          /\ PositionOf(employees[i]) = "" /\ CompanyTitleOf(employees[i]) = ""
          /\ processed_employees[i].title = ExperienceTitleOf(employees[i])
          /\ processed_employees[i].title # ""

\* the known placeholder titles
Placeholders == {"--", "None", ""}

\* every title source of the record is empty or a placeholder
AllTitleSourcesEmpty(row) ==
    /\ PositionOf(row) \in Placeholders
    /\ CompanyTitleOf(row) \in Placeholders
    /\ ExperienceTitleOf(row) \in Placeholders

\* the label the network size stands for
LabelOfNetwork(connections, followers) ==
    IF connections > 500 \/ followers > 1000 THEN "Senior Manager"
    ELSE IF connections > 200 THEN "Manager"
    ELSE "Individual Contributor"

ListsOf(emp) == {k \in 1..5 : InList(emp, role_lists[k])}

\* C15 as stated: the rules are evaluated in the order DecisionMaker,
\* Champion, Blocker, Stakeholder, Introducer, so a person who is neither
\* DecisionMaker nor Champion and satisfies the Blocker condition (legal,
\* compliance or finance department, or influence below 3.0) is a Blocker
\* even when the Stakeholder condition also holds.
C15_BlockerBeforeStakeholder ==
    /\ \A i \in 1..Len(enriched) :
          (/\ enriched[i].buyer_group_role \notin {"decision_maker", "champion"}
           /\ \/ enriched[i].department \in {"Legal", "Compliance", "Finance"}
              \/ enriched[i].influence_score < 3000)
          => enriched[i].buyer_group_role = "blocker"
    /\ YelloDone =>
          \A i \in 1..Len(optimal_buyer_group) :
             (/\ ListsOf(optimal_buyer_group[i]) \cap {1, 2} = {}
              /\ \/ optimal_buyer_group[i].department = "Finance & Legal"
                 \/ optimal_buyer_group[i].influence_score < 3000)
             => ListsOf(optimal_buyer_group[i]) = {4}

\* the Stakeholder and Blocker conditions of the Yello script
YelloStakeholderCondition(emp) ==
    /\ emp.seniority \in {"Senior Leadership", "Mid-Level Management"}
    /\ emp.influence_score >= 4000
YelloBlockerCondition(emp) == emp.influence_score < 3000 \/ emp.department = "Other"

\* C15, amended: the Mux Role Assigner evaluates DecisionMaker, Champion,
\* Blocker, Stakeholder, Opener in this order and its Blocker condition is
\* the department alone (legal, compliance, finance), so such a person who
\* is neither DecisionMaker nor Champion is a Blocker even when the
\* Stakeholder condition (decision power >= 0.2) holds; the Yello script
\* tests Stakeholder before Blocker, and its Blocker condition is influence
\* below 3.0 or department Other.
C15_RolePrecedence ==
    /\ \A i \in 1..Len(enriched) :
          enriched[i].buyer_group_role \notin {"decision_maker", "champion"} =>
             /\ enriched[i].department \in {"Legal", "Compliance", "Finance"} =>
                   enriched[i].buyer_group_role = "blocker"
             /\ enriched[i].department \notin {"Legal", "Compliance", "Finance"} =>
                   enriched[i].buyer_group_role =
                      IF enriched[i].decision_making_power >= 200
                      THEN "stakeholder" ELSE "opener"
    /\ YelloDone =>
          \A i \in 1..Len(optimal_buyer_group) :
             ListsOf(optimal_buyer_group[i]) \cap {1, 2} = {} =>
                ListsOf(optimal_buyer_group[i]) =
                   IF YelloStakeholderCondition(optimal_buyer_group[i]) THEN {3}
                   ELSE IF YelloBlockerCondition(optimal_buyer_group[i]) THEN {4}
                   ELSE {5}

\* a Mux Blocker of the finance department whose decision power also
\* satisfies the Stakeholder condition
C15_Witness ==
    \E i \in 1..Len(enriched) :
       /\ enriched[i].buyer_group_role = "blocker"
       /\ enriched[i].department = "Finance"
       /\ enriched[i].decision_making_power >= 200

\* the pipeline stage that assigns a local variable of enrich_person:
\* 1 Title Normalizer, 2 Attribute Classifier, 3 Scoring Engine,
\* 4 Role Assigner; 0 for the values no stage of the pipeline owns
StageOf(field) ==
    CASE field = "title" -> 1
      [] field \in {"department", "team", "standardized_title", "seniority_level"} -> 2
      [] field \in {"decision_making_power", "influence_score", "flight_risk_score"} -> 3
      [] field = "buyer_group_role" -> 4
      [] OTHER -> 0

\* the Group Builder has started
GroupingStarted == script = "mux" /\ pc \in {"report", "done"}

\* every person of the batch is enriched before grouping starts
EnrichedBeforeGrouping ==
    /\ (script = "mux" /\ pc \in {"group", "report", "done"}) =>
          Len(enriched) = Len(rows) /\ cur = <<>>
    /\ (script = "mux" /\ pc \in {"enrich", "raised", "group"}) =>
          buyer_groups = <<>> /\ ~report.generated

\* no statement reads a value assigned by a later one
ReadsOnlyEarlier ==
    \A k \in 1..Len(cur) : StepReads(cur[k].field) \subseteq {cur[j].field : j \in 1..(k - 1)}

\* C16 as stated: the stages run in the order Title Normalizer, Attribute
\* Classifier, Scoring Engine, Role Assigner, Group Builder: for each person
\* all three scores are computed before the role is assigned, every person
\* is enriched before grouping starts, and no stage reads the output of a
\* later stage.
C16_StagesInOrder ==
    /\ \A j, k \in 1..Len(cur) :
          (j < k /\ StageOf(cur[j].field) # 0 /\ StageOf(cur[k].field) # 0) =>
             StageOf(cur[j].field) <= StageOf(cur[k].field)
    /\ "buyer_group_role" \in Computed =>
          {"decision_making_power", "influence_score", "flight_risk_score"}
             \subseteq Computed
    /\ EnrichedBeforeGrouping
    /\ ReadsOnlyEarlier

\* C16, amended: for each person the title, the department, the seniority
\* and the decision power are computed before the role is assigned, the
\* role is assigned before influence and flight risk are computed and reads
\* neither; every person is enriched before grouping starts; no statement
\* reads a value computed by a later one.
C16_RoleAfterDecisionPower ==
    /\ "buyer_group_role" \in Computed =>
          {"title", "department", "seniority_level", "decision_making_power"}
             \subseteq Computed
    /\ (Computed \cap {"influence_score", "flight_risk_score"} # {}) =>
          "buyer_group_role" \in Computed
    /\ StepReads("buyer_group_role") \cap {"influence_score", "flight_risk_score"} = {}
    /\ EnrichedBeforeGrouping
    /\ ReadsOnlyEarlier

\* the second person of a batch has its role and its decision power but
\* neither influence nor flight risk yet
C16_Witness ==
    /\ script = "mux" /\ pc = "enrich" /\ idx = 2
    /\ cur # <<>>
    /\ cur[Len(cur)].field = "buyer_group_role"
    /\ "decision_making_power" \in Computed
    /\ "influence_score" \notin Computed

\* the position names a higher-turnover department: it contains one of
\* the keywords calculate_flight_risk looks for
HighTurnoverTitle ==
    [position \in {PositionOf(p) : p \in AllPersons} |->
        ContainsAny({"engineer", "developer", "sales"}, Lower(position))]

\* C17: flight risk starts at 0.5, gains a fixed increment only when the
\* title belongs to a higher-turnover department (engineering, sales),
\* gains a further increment whenever no recent activity signal is present
\* (activity missing or empty), and is capped at 1.0; with an activity
\* signal and a title outside those departments it is exactly 0.5.  The
\* increments are the 0.1 and 0.2 that calculate_flight_risk adds.
C17_FlightRiskBaseline ==
    script = "mux" =>
       \A i \in 1..Len(enriched) :
          LET turnover == HighTurnoverTitle[PositionOf(rows[i])]
              signal == Truthy(rows[i].activity)
          IN  /\ enriched[i].flight_risk_score =
                    Min(500 + (IF turnover THEN 100 ELSE 0)
                            + (IF signal THEN 0 ELSE 200), 1000)
              /\ (signal /\ ~turnover) => enriched[i].flight_risk_score = 500

\* the number a count stands for: the number itself or its digits, zero
\* for a missing or empty count
NumberOf(c) == IF c.k \in {"int", "numstr"} THEN c.v ELSE 0

\* the two capped components the claim computes from the counts of a
\* record, in thousandths
NetworkComponent(row) == Min(NumberOf(row.connections) + NumberOf(row.followers), 10000)
RecommendationComponent(row) == Min(NumberOf(row.recommendations_count) * 500, 5000)

\* what is left of the influence score of the i-th processed employee
\* after the network and recommendation components
BonusOf(i) ==
    processed_employees[i].influence_score
    - NetworkComponent(employees[i]) - RecommendationComponent(employees[i])

\* the influence score of the Yello script is the sum of the two capped
\* components and a bonus that depends on the seniority tier only, highest
\* for Executive and lowest for Individual Contributor
YelloInfluenceComponents ==
    YelloProcessing =>
       \A i, j \in 1..Len(processed_employees) :
          LET si == processed_employees[i].seniority
              sj == processed_employees[j].seniority
          IN  /\ BonusOf(i) >= 0
              /\ si = sj => BonusOf(i) = BonusOf(j)
              /\ (si = "Executive" /\ sj # "Executive") => BonusOf(i) > BonusOf(j)
              /\ (si # "Individual Contributor" /\ sj = "Individual Contributor") =>
                    BonusOf(i) > BonusOf(j)
              /\ (/\ si = sj
                  /\ NumberOf(employees[i].connections) + NumberOf(employees[i].followers)
                        >= 10000
                  /\ NumberOf(employees[j].connections) + NumberOf(employees[j].followers)
                        >= 10000
                  /\ NumberOf(employees[i].recommendations_count) >= 10
                  /\ NumberOf(employees[j].recommendations_count) >= 10) =>
                    processed_employees[i].influence_score
                       = processed_employees[j].influence_score

\* C18 as stated, for the influence score of both scripts: the score is the
\* sum of network = min((connections + followers) / 1000, 10.0),
\* recommendation bonus = min(recommendations_count * 0.5, 5.0) and a
\* seniority bonus that is highest for Executive and lowest for Individual
\* Contributor; counts beyond the caps do not change it.
C18_InfluenceThreeComponents ==
    /\ YelloInfluenceComponents
    /\ script = "mux" =>
          \A i \in 1..Len(enriched) :
             enriched[i].influence_score
                >= NetworkComponent(rows[i]) + RecommendationComponent(rows[i])

\* C18, amended: the influence score of the Yello script is the sum of the
\* three components of the claim; the influence score of the Mux enricher
\* is 0.4 * decision power, plus 0.2 with an activity signal, plus 0.2 for
\* connections > 500 or 0.1 for connections > 200, plus 0.1 with an
\* experience entry, capped at 1.0, and reads neither followers nor
\* recommendations.
C18_InfluencePerScript ==
    /\ YelloInfluenceComponents
    /\ script = "mux" =>
          \A i \in 1..Len(enriched) :
             enriched[i].influence_score =
                Min((enriched[i].decision_making_power * 4) \div 10
                    + (IF Truthy(rows[i].activity) THEN 200 ELSE 0)
                    + (IF CountOr(rows[i].connections) > 500 THEN 200
                       ELSE IF CountOr(rows[i].connections) > 200 THEN 100 ELSE 0)
                    + (IF Truthy(rows[i].experience) THEN 100 ELSE 0), 1000)

\* two executives, one exactly at the caps (network 10000, 10
\* recommendations) and one beyond them, with the same score of 20.0
C18_Witness ==
    /\ YelloProcessing
    /\ \E i, j \in 1..Len(processed_employees) :
          /\ NumberOf(employees[i].connections) + NumberOf(employees[i].followers) = 10000
          /\ NumberOf(employees[i].recommendations_count) = 10
          /\ NumberOf(employees[j].connections) + NumberOf(employees[j].followers) > 10000
          /\ NumberOf(employees[j].recommendations_count) > 10
          /\ processed_employees[i].influence_score = 20000
          /\ processed_employees[j].influence_score = 20000

\* the title levels a title matches: 4 executive terms, 3 VP, 2 director,
\* 1 manager
TitleLevels ==
    [title \in MuxTitles |->
        LET title_lower == Lower(title) IN
        {level \in 1..4 :
            CASE level = 4 -> ReSearch({"ceo", "cfo", "cto", "coo", "president"}, title_lower)
              [] level = 3 -> ReSearch({"vp", "vice president"}, title_lower)
              [] level = 2 -> ReSearch({"director", "head of"}, title_lower)
              [] level = 1 -> ReSearch({"manager", "lead"}, title_lower)}]

\* the highest level the title matches, 0 when it matches none
TitleLevel(title) ==
    IF TitleLevels[title] = {} THEN 0
    ELSE CHOOSE level \in TitleLevels[title] : \A l \in TitleLevels[title] : l <= level

\* the two increments of every title and department label
TitleIncrement == [title \in MuxTitles |-> title_power(title)]
DepartmentIncrement ==
    [label \in {EnrichMemo[p].out[c].department :
                   p \in DOMAIN EnrichMemo, c \in RandomDepts \cup {"none"}} |->
        dept_power(label)]

\* C19: decision power is the sum of one title increment and one department
\* increment, capped at 1.0; the title increment is strictly larger for
\* executive terms than for VP, for VP than for director, for director than
\* for manager, and zero otherwise; only the highest matching level counts;
\* the department table gives its two largest increments to the executive
\* and sales departments.
C19_DecisionPower ==
    \A i, j \in 1..Len(enriched) :
       LET pi == enriched[i]
           pj == enriched[j]
       IN  /\ pi.decision_making_power =
                 Min(TitleIncrement[pi.title] + DepartmentIncrement[pi.department], 1000)
           /\ TitleLevel(pi.title) = 0 => TitleIncrement[pi.title] = 0
           /\ TitleLevel(pi.title) > TitleLevel(pj.title) =>
                 TitleIncrement[pi.title] > TitleIncrement[pj.title]
           /\ (pi.department = pj.department /\ TitleLevel(pi.title) > TitleLevel(pj.title)) =>
                 pi.decision_making_power > pj.decision_making_power
           /\ (pi.department = pj.department /\ TitleLevel(pi.title) = TitleLevel(pj.title)) =>
                 pi.decision_making_power = pj.decision_making_power
           /\ (/\ TitleLevel(pi.title) = TitleLevel(pj.title)
               /\ pi.department \in {"Executive", "Sales"}
               /\ pj.department \notin {"Executive", "Sales"}) =>
                 pi.decision_making_power > pj.decision_making_power

\* two people of one department, one whose title matches the executive and
\* the director level and one whose title matches the executive level
\* alone, with the same decision power
C19_Witness ==
    \E i, j \in 1..Len(enriched) :
       /\ enriched[i].department = enriched[j].department
       /\ TitleLevels[enriched[i].title] = {2, 4}
       /\ TitleLevels[enriched[j].title] = {4}
       /\ enriched[i].decision_making_power = enriched[j].decision_making_power

\* does the title hold a keyword of one of the four seniority tiers
HasSeniorityKeyword == [title \in YelloTitles |-> SeniorityKeywordMatches(title)]

\* the seniority of the title with no network at all
SeniorityOfTitleAlone ==
    [title \in YelloTitles |-> calculate_seniority_level(title, NoCount, NoCount)]

\* connections + followers of the i-th loaded row
TotalNetwork(i) == NumberOf(employees[i].connections) + NumberOf(employees[i].followers)

\* C20: when the title matches no seniority keyword, calculate_seniority_level
\* falls back to the network size: connections + followers > 2000 gives
\* Senior Leadership, > 1000 (and <= 2000) Mid-Level Management, otherwise
\* Individual Contributor; the fallback is never consulted when a seniority
\* keyword matches the title.
C20_SeniorityFallback ==
    YelloProcessing =>
       \A i \in 1..Len(processed_employees) :
          LET title == processed_employees[i].title
              seniority == processed_employees[i].seniority
          IN  /\ ~HasSeniorityKeyword[title] =>
                    seniority = IF TotalNetwork(i) > 2000 THEN "Senior Leadership"
                                ELSE IF TotalNetwork(i) > 1000 THEN "Mid-Level Management"
                                ELSE "Individual Contributor"
              /\ HasSeniorityKeyword[title] => seniority = SeniorityOfTitleAlone[title]

\* a title without keyword and a network of exactly 2000 classified as
\* Mid-Level Management, next to an analyst with a network above 2000
\* who stays Individual Contributor
C20_Witness ==
    /\ YelloProcessing
    /\ \E i \in 1..Len(processed_employees) :
          /\ ~HasSeniorityKeyword[processed_employees[i].title]
          /\ TotalNetwork(i) = 2000
          /\ processed_employees[i].seniority = "Mid-Level Management"
    /\ \E i \in 1..Len(processed_employees) :
          /\ HasSeniorityKeyword[processed_employees[i].title]
          /\ TotalNetwork(i) > 2000
          /\ processed_employees[i].seniority = "Individual Contributor"

----------------------------------------------------------------------------
\* the roles of the enriched records of a department
RolesPresent(dept) ==
    { enriched[i].buyer_group_role :
        i \in { j \in 1..Len(enriched) : enriched[j].department = dept } }

\* the strategy the precedence over the roles present gives
StrategyByPrecedence(present) ==
    IF "decision_maker" \in present THEN "executive_sponsor"
    ELSE IF "champion" \in present THEN "champion_led"
    ELSE IF "blocker" \in present THEN "blocker_mitigation"
    ELSE "stakeholder_consensus"

\* C21: the engagement strategy of every emitted group is the first that
\* applies of: executive_sponsor if a member is a decision maker,
\* champion_led if a member is a champion, blocker_mitigation if a member is
\* a blocker, stakeholder_consensus otherwise
C21_EngagementStrategy ==
    (script = "mux" /\ pc \in {"report", "done"}) =>
        \A k \in 1..Len(buyer_groups) :
            buyer_groups[k].engagement_strategy =
                StrategyByPrecedence(RolesPresent(buyer_groups[k].department))

\* a group led by its champion although it has a blocker too
C21_Witness ==
    /\ script = "mux" /\ pc = "done"
    /\ \E k \in 1..Len(buyer_groups) :
          /\ buyer_groups[k].engagement_strategy = "champion_led"
          /\ "blocker" \in RolesPresent(buyer_groups[k].department)

----------------------------------------------------------------------------
\* the priority the two cut points give for a total influence and a mean
\* decision power num / den, in thousandths
PriorityByCutPoints(total_influence, num, den) ==
    LET High == total_influence > 3000 /\ num > 400 * den
        Medium == ~High /\ total_influence > 2000 /\ num > 300 * den
    IN  IF High THEN "high" ELSE IF Medium THEN "medium" ELSE "low"

\* the enriched records of a department
MembersOf(dept) == SelectSeq(enriched, LAMBDA p : p.department = dept)

\* C22: the priority of every emitted group is high exactly when its stored
\* total_influence is above 3.0 and its stored mean decision power above
\* 0.4, medium exactly when it is not high and they are above 2.0 and 0.3,
\* low otherwise; the stored totals are the sums over the group's members
C22_PriorityFromMetrics ==
    (script = "mux" /\ pc \in {"report", "done"}) =>
        \A k \in 1..Len(buyer_groups) :
            LET bg == buyer_groups[k]
                members == MembersOf(bg.department)
            IN  /\ bg.priority =
                       PriorityByCutPoints(bg.metrics.total_influence,
                                           bg.metrics.avg_decision_power.num,
                                           bg.metrics.avg_decision_power.den)
                /\ bg.metrics.total_influence =
                       SumSeq([i \in 1..Len(members) |-> members[i].influence_score])
                /\ bg.metrics.avg_decision_power.num =
                       SumSeq([i \in 1..Len(members) |-> members[i].decision_making_power])
                /\ bg.metrics.avg_decision_power.den = Len(members)

\* a group whose mean decision power is exactly 0.4 and whose total
\* influence is above 3.0: medium, not high
C22_Witness ==
    /\ script = "mux" /\ pc = "done"
    /\ \E k \in 1..Len(buyer_groups) :
          LET bg == buyer_groups[k]
          IN  /\ bg.metrics.total_influence > 3000
              /\ bg.metrics.avg_decision_power.num = 400 * bg.metrics.avg_decision_power.den
              /\ bg.priority = "medium"

----------------------------------------------------------------------------
\* C23: every emitted group has at least 3 members, its members are the
\* enriched records of its department, no two emitted groups have the same
\* department or the same id, and the denominators of its averages are the
\* number of members, never zero
C23_GroupsNeverEmpty ==
    (script = "mux" /\ pc \in {"report", "done"}) =>
        /\ \A k \in 1..Len(buyer_groups) :
              LET bg == buyer_groups[k]
              IN  /\ Len(bg.members) >= 3
                  /\ bg.members = IdsOf(MembersOf(bg.department))
                  /\ bg.metrics.avg_decision_power.den = Len(bg.members)
                  /\ bg.metrics.flight_risk.den = Len(bg.members)
                  /\ bg.metrics.coverage_score.den = Len(bg.members)
        /\ \A k, l \in 1..Len(buyer_groups) :
              k # l => /\ buyer_groups[k].department # buyer_groups[l].department
                       /\ buyer_groups[k].id # buyer_groups[l].id

\* a group of exactly 3 members is emitted, and two departments with fewer
\* than 3 records have no group
C23_Witness ==
    /\ script = "mux" /\ pc = "done"
    /\ Len(buyer_groups) = 1
    /\ Len(buyer_groups[1].members) = 3
    /\ \E i, j \in 1..Len(enriched) :
          /\ enriched[i].department # buyer_groups[1].department
          /\ enriched[j].department # buyer_groups[1].department
          /\ enriched[i].department # enriched[j].department

----------------------------------------------------------------------------
RoleListNames == {"champions", "decision_makers", "blockers", "stakeholders", "openers"}

\* the elements of a list
Elements(lst) == { lst[i] : i \in 1..Len(lst) }

\* no value occurs twice in the list
NoRepeat(lst) == \A i, j \in 1..Len(lst) : i # j => lst[i] # lst[j]

\* C24: in every emitted group the member ids are unique, the five role
\* lists are pairwise disjoint and together hold exactly the member ids, and
\* coverage_score is (champions + decision makers) / members, within [0, 1];
\* for every batch, records without an id included
C24_RoleListsPartitionMembers ==
    (script = "mux" /\ pc \in {"report", "done"}) =>
        \A k \in 1..Len(buyer_groups) :
            LET bg == buyer_groups[k]
                cov == bg.metrics.coverage_score
            IN  /\ NoRepeat(bg.members)
                /\ \A a, b \in RoleListNames :
                      a # b => Elements(bg.roles[a]) \cap Elements(bg.roles[b]) = {}
                /\ UNION { Elements(bg.roles[a]) : a \in RoleListNames } = Elements(bg.members)
                /\ cov.num = Len(bg.roles.champions) + Len(bg.roles.decision_makers)
                /\ cov.den = Len(bg.members)
                /\ 0 <= cov.num /\ cov.num <= cov.den

----------------------------------------------------------------------------
SeniorLeadershipKeywords == {"vice president", "vp", "director", "head of", "chief"}
ExecutiveTerms == {"ceo", "cto", "cfo", "coo", "president", "founder"}

\* the title contains a senior-leadership keyword and no executive term as
\* a separate word
SeniorLeadershipTitle ==
    [title \in YelloTitles |->
        /\ ContainsAny(SeniorLeadershipKeywords, Lower(title))
        /\ ~ReSearch(ExecutiveTerms, Lower(title))]

\* C25: a title that contains a senior-leadership keyword and none of the
\* executive terms as a separate word is classified Senior Leadership; a
\* plain "Director of ..." title is Senior Leadership, not Executive
C25_DirectorIsSeniorLeadership ==
    YelloProcessing =>
       \A i \in 1..Len(processed_employees) :
          SeniorLeadershipTitle[processed_employees[i].title] =>
              processed_employees[i].seniority = "Senior Leadership"

----------------------------------------------------------------------------
\* the role the network size stands for when the title is inferred
RoleOfNetwork(connections, followers) ==
    IF connections > 500 \/ followers > 1000 THEN "champion"
    ELSE IF connections > 200 THEN "stakeholder"
    ELSE "opener"

----------------------------------------------------------------------------
\* C27: decision_making_power is at most 0.7 and influence_score at most
\* 0.78 for every person, so a group of exactly 3 members has a total
\* influence below 3.0, and a group of priority high has at least 4 members
C27_HighNeedsFourMembers ==
    script = "mux" =>
       /\ \A i \in 1..Len(enriched) :
             /\ enriched[i].decision_making_power <= 700
             /\ enriched[i].influence_score <= 780
       /\ \A k \in 1..Len(buyer_groups) :
             /\ Len(buyer_groups[k].members) = 3 =>
                   /\ buyer_groups[k].metrics.total_influence < 3000
                   /\ buyer_groups[k].priority # "high"
             /\ buyer_groups[k].priority = "high" => Len(buyer_groups[k].members) >= 4

\* three people at both maxima form a group, and it is not high
C27_Witness ==
    /\ script = "mux" /\ pc = "done"
    /\ \E k \in 1..Len(buyer_groups) :
          /\ Len(buyer_groups[k].members) = 3
          /\ buyer_groups[k].metrics.total_influence = 3 * 780
          /\ buyer_groups[k].metrics.avg_decision_power.num = 3 * 700
          /\ buyer_groups[k].priority = "medium"

----------------------------------------------------------------------------
\* a csv script has selected its optimal buyer group
Selected == script \in CsvScripts /\ pc \in {"categorize", "done"}

\* the two highest of a department in the sorted list
TopTwo(dept) == Take(SelectSeq(processed_employees, LAMBDA emp : emp.department = dept), 2)

\* the two highest of each priority department, in priority order
PriorityTopTwo ==
    TopTwo(priority_departments[1]) \o TopTwo(priority_departments[2])
    \o TopTwo(priority_departments[3]) \o TopTwo(priority_departments[4])
    \o TopTwo(priority_departments[5]) \o TopTwo(priority_departments[6])

\* the priority picks, then the remaining people by influence, cut at 8
SelectionExpected ==
    LET rest == SelectSeq(processed_employees,
                          LAMBDA emp : \A i \in 1..Len(PriorityTopTwo) : PriorityTopTwo[i] # emp)
        all == PriorityTopTwo \o rest
    IN  SubSeq(all, 1, IF Len(all) < 8 THEN Len(all) ELSE 8)

\* C29: on a batch whose processed records are pairwise distinct the
\* selection of the Yello script and the selection of the Clumio script give
\* the same list in the same order: the two highest of each priority
\* department in priority order, then the highest remaining; it has
\* min(8, N) members and no person twice
C29_SelectionsEquivalent ==
    (Selected /\ NoRepeat(processed_employees)) =>
        /\ SelectOptimalGroup(processed_employees)
              = ClumioSelectOptimalGroup(processed_employees)
        /\ optimal_buyer_group = SelectOptimalGroup(processed_employees)
        /\ optimal_buyer_group = SelectionExpected
        /\ Len(optimal_buyer_group) =
              (IF Len(processed_employees) < 8 THEN Len(processed_employees) ELSE 8)
        /\ NoRepeat(optimal_buyer_group)

\* the Clumio script has selected from a batch of distinct records in which
\* every priority department has more than two people: twelve priority
\* picks for eight places
C29_Witness ==
    /\ script = "clumio" /\ pc = "done"
    /\ NoRepeat(processed_employees)
    /\ Len(PriorityTopTwo) = 12
    /\ Len(processed_employees) > 12
    /\ Len(optimal_buyer_group) = 8

----------------------------------------------------------------------------
\* C28: in the Yello and the Clumio role assignment a person of Executive
\* seniority has an influence score of 5.0 or more and is placed in
\* Decision Makers, Champions or Introducers, never in Blockers or
\* Stakeholders; with an influence in [5.0, 6.0) the person is an Introducer,
\* or a Champion by the sales / marketing rule of the Yello script
C28_ExecutivePlacement ==
    (script \in CsvScripts) =>
        /\ \A i \in 1..Len(processed_employees) :
              processed_employees[i].seniority = "Executive" =>
                  processed_employees[i].influence_score >= 5000
        /\ pc = "done" =>
              \A i \in 1..Len(optimal_buyer_group) :
                 LET emp == optimal_buyer_group[i]
                     lists == {k \in 1..5 : InList(emp, role_lists[k])}
                 IN  emp.seniority = "Executive" =>
                        /\ lists # {} /\ lists \subseteq {1, 2, 5}
                        /\ emp.influence_score < 6000 =>
                              lists = IF /\ script = "yello"
                                         /\ emp.department \in {"Sales & Revenue Operations",
                                                                "Marketing"}
                                      THEN {2} ELSE {5}

\* the Clumio script placed an executive with an influence of 5.1 in
\* Introducers and an executive above 8.0 in Decision Makers
C28_Witness ==
    /\ script = "clumio" /\ pc = "done"
    /\ \E i \in 1..Len(role_lists[5]) :
          /\ role_lists[5][i].seniority = "Executive"
          /\ role_lists[5][i].influence_score = 5100
          /\ role_lists[5][i].department = "Sales & Revenue Operations"
    /\ \E i \in 1..Len(role_lists[1]) : role_lists[1][i].seniority = "Executive"

----------------------------------------------------------------------------
\* what wait_for_snapshot has returned is consistent with what it observed
WaitOutcome ==
    /\ checks <= 30
    /\ returned = "True" => status = "completed"
    /\ status \in {"failed", "not_200", "exception"} => returned = "False"
    /\ (returned = "False" /\ status \notin {"failed", "not_200", "exception"}) =>
           /\ checks = 30
           /\ status \notin {"completed", "failed"}
    /\ returned = "none" => (status \notin {"completed", "failed", "not_200", "exception"}
                             /\ pc = "wait")

\* C30: wait_for_snapshot terminates after at most 30 status checks whatever
\* the provider answers; it returns True only when a check observed status
\* completed, False at once on status failed, on a response other than 200
\* and on a request error, and False after 30 checks that all reported
\* another status
C30_WaitTerminates ==
    /\ [](script = "find_clumio" => WaitOutcome)
    /\ <>(script = "find_clumio" => pc = "done" /\ returned # "none")

\* the time-out: 30 checks, each reporting a status that is neither
\* completed nor failed, then False
C30_Witness ==
    /\ script = "find_clumio" /\ pc = "done"
    /\ checks = 30 /\ attempt = 30
    /\ status \in OtherStatuses
    /\ returned = "False"

====
